---- MODULE Spec2Model ----
(***************************************************************************)
(* CLONIQ structural-similarity engine: the pairwise comparator            *)
(* (services/similarity.py, services/advanced_similarity.py), the          *)
(* aggregator (services/graph_builder.py), the orchestrator                *)
(* (services/analysis_orchestrator.py) and the request handlers that feed  *)
(* them (api/routes/analyze.py).                                           *)
(*                                                                         *)
(* Numbers.  A similarity is a float in the code.  Here it is an integer   *)
(* number of millionths (Scale = 10^6), the resolution of the code's       *)
(* round(x, 6); round(x, 4) keeps that unit and rounds to a multiple of    *)
(* 100.  A weight is an integer number of tenths.                          *)
(*                                                                         *)
(* File names.  A file name is an integer whose order is the               *)
(* lexicographic order of the strings "label/base.ext"; label 0 is an      *)
(* upload without prefix.                                                  *)
(*                                                                         *)
(* Hashes.  A SHA-256 digest is an element of Hashes; distinct structures  *)
(* have distinct elements.                                                 *)
(***************************************************************************)
EXTENDS Integers, Sequences, FiniteSets, TLC

VARIABLES env, pc, kind, groups, details, response, replay,
          analysis_store, returned, answer

vars == <<env, pc, kind, groups, details, response, replay,
          analysis_store, returned, answer>>

(***************************************************************************)
(* Bounds of the model                                                     *)
(***************************************************************************)
MaxFiles == 3
MaxPairs == 3
MaxEdges == 2
MaxNodes == 2
MaxItems == 3
MaxNames == 4
MaxJudged == 2
ScoreSteps == 100

(***************************************************************************)
(* Program constants                                                       *)
(***************************************************************************)
Scale == 1000000
DefaultAstWeight == 4
DefaultCfgWeight == 3
DefaultDataflowWeight == 3
AnalyzeThreshold == 500000
PairThreshold == 0
CrossThreshold == 500000
ClusterThreshold == 750000
GraphThreshold == 500000
LlmThreshold == 700000
CriticalScore == 950000
HighScore == 850000
PlagiarismThreshold == 750000

\* normalised_tree = None
None == [present |-> FALSE, cfg |-> {}, dfg |-> {}]

(***************************************************************************)
(* Generic helpers                                                         *)
(***************************************************************************)
Range(s) == {s[i] : i \in DOMAIN s}

RECURSIVE SetToSortedSeq(_)
SetToSortedSeq(S) ==
  IF S = {} THEN <<>>
  ELSE LET m == CHOOSE x \in S : \A y \in S : x <= y
       IN <<m>> \o SetToSortedSeq(S \ {m})

Min2(a, b) == IF a <= b THEN a ELSE b
Max2(a, b) == IF a >= b THEN a ELSE b

\* Python round(): nearest, ties to even, of the quotient n / d (d > 0).
RoundDiv(n, d) ==
  LET q == n \div d
      r == n % d
  IN IF 2 * r < d THEN q
     ELSE IF 2 * r > d THEN q + 1
     ELSE IF q % 2 = 0 THEN q ELSE q + 1

\* round(num / den, 6) in millionths.
Round6(num, den) == RoundDiv(num * Scale, den)

\* round(x, 4) of a value in millionths.
Round4(x) == RoundDiv(x, 100) * 100

(***************************************************************************)
(* Source files.  A source text is reduced to what the parser, the         *)
(* normaliser and the fingerprinter make of it: its language family, the   *)
(* non-trivial nodes of its normalised tree in visit order with their      *)
(* subtree hash and line range, and, for the scripting family, the hashed  *)
(* CFG and DFG edge sets of its normalised tree.                           *)
(***************************************************************************)
Hashes == 1 .. 5

Node(h, s, e) == [hash |-> h, start_line |-> s, end_line |-> e]

Sources ==
  { [lang |-> "py",
     nodes |-> <<Node(1, 0, 0), Node(2, 1, 2), Node(3, 1, 1)>>,
     cfg |-> {}, dfg |-> {1}],
    [lang |-> "py",
     nodes |-> <<Node(1, 0, 0), Node(4, 1, 3), Node(3, 2, 2), Node(5, 3, 3), Node(3, 4, 4)>>,
     cfg |-> {}, dfg |-> {1}],
    [lang |-> "js",
     nodes |-> <<Node(1, 1, 2), Node(2, 1, 1)>>,
     cfg |-> {}, dfg |-> {}] }

Bases == 1 .. 2
Labels == 1 .. 2

\* ".js" < ".py" < ".txt"; ".txt" stands for every extension that
\* is_supported refuses.
ExtCode(lang) ==
  CASE lang = "js" -> 0
    [] lang = "py" -> 1
    [] OTHER -> 2

\* f"{label}/{name}" (analyze.py 356); label 0 is the bare upload name.
Prefixed(label, base, lang) == label * 100 + base * 10 + ExtCode(lang)

(***************************************************************************)
(* Fingerprints                                                            *)
(***************************************************************************)
RECURSIVE HashToLines(_, _)
HashToLines(nodes, h) ==
  IF nodes = <<>> THEN <<>>
  ELSE (IF Head(nodes).hash = h
        THEN << <<Head(nodes).start_line, Head(nodes).end_line>> >>
        ELSE <<>>) \o HashToLines(Tail(nodes), h)

\* generate_subtree_hashes / hash_ir: what is recorded for the non-trivial
\* nodes, in visit order.
generate_subtree_hashes(nodes) ==
  LET hs == {nodes[i].hash : i \in DOMAIN nodes}
  IN [subtree_infos |-> nodes,
      hash_set |-> hs,
      hash_to_lines |-> [h \in hs |-> HashToLines(nodes, h)]]

\* _process_source: the FileAnalysis stored under filename.  Only the
\* scripting-family path keeps a normalised tree.
FileAnalysisOf(filename, src) ==
  LET fa == generate_subtree_hashes(src.nodes)
  IN [filename |-> filename,
      subtree_infos |-> fa.subtree_infos,
      hash_set |-> fa.hash_set,
      hash_to_lines |-> fa.hash_to_lines,
      normalised_tree |->
        IF src.lang = "py"
        THEN [present |-> TRUE, cfg |-> src.cfg, dfg |-> src.dfg]
        ELSE None]

(***************************************************************************)
(* Insertion-ordered dictionaries: a sequence of [key, value] items        *)
(***************************************************************************)
Keys(d) == {d[i].key : i \in DOMAIN d}

Get(d, k) == (CHOOSE i \in DOMAIN d : d[i].key = k)

Lookup(d, k) == d[Get(d, k)].value

\* d[k] = v : an existing key keeps its position.
DictSet(d, k, v) ==
  IF k \in Keys(d)
  THEN [d EXCEPT ![Get(d, k)] = [key |-> k, value |-> v]]
  ELSE Append(d, [key |-> k, value |-> v])

\* {**a, **b}
RECURSIVE DictMerge(_, _)
DictMerge(a, b) ==
  IF b = <<>> THEN a
  ELSE DictMerge(DictSet(a, Head(b).key, Head(b).value), Tail(b))

(***************************************************************************)
(* advanced_similarity.py                                                  *)
(***************************************************************************)
DefaultWeights == <<DefaultAstWeight, DefaultCfgWeight, DefaultDataflowWeight>>

\* Values of AST_WEIGHT, CFG_WEIGHT, DATAFLOW_WEIGHT that _weight accepts:
\* any float, here the defaults and a setting with a negative weight and a
\* sum above 1.
WeightChoices == {DefaultWeights, <<-4, 10, 10>>}

\* A variant that divides by |A| + |B| instead of |A union B|.
compute_ast_similarity_mut(a, b) ==
  LET intersection == a.hash_set \cap b.hash_set
      union == a.hash_set \cup b.hash_set
  IN IF union # {}
     THEN Round6(Cardinality(intersection),
                 Cardinality(a.hash_set) + Cardinality(b.hash_set))
     ELSE 0

compute_ast_similarity(a, b) ==
  LET intersection == a.hash_set \cap b.hash_set
      union == a.hash_set \cup b.hash_set
  IN IF union # {} THEN Round6(Cardinality(intersection), Cardinality(union))
     ELSE 0

\* _build_cfg_hashes(tree)[1] and _build_dataflow_hashes(tree)[0]: the
\* hashed edge sets of a normalised tree.
build_cfg_hashes(tree) == tree.cfg

build_dataflow_hashes(tree) == tree.dfg

\* A variant without the guard for two empty edge sets.
compute_cfg_similarity_mut(tree_a, tree_b) ==
  LET hashed_a == build_cfg_hashes(tree_a)
      hashed_b == build_cfg_hashes(tree_b)
      intersection == hashed_a \cap hashed_b
      union == hashed_a \cup hashed_b
  IN IF union = {} THEN 0
     ELSE Round6(Cardinality(intersection), Cardinality(union))

compute_cfg_similarity(tree_a, tree_b) ==
  LET hashed_a == build_cfg_hashes(tree_a)
      hashed_b == build_cfg_hashes(tree_b)
      intersection == hashed_a \cap hashed_b
      union == hashed_a \cup hashed_b
  IN IF hashed_a = {} /\ hashed_b = {} THEN Scale
     ELSE IF union = {} THEN 0
     ELSE Round6(Cardinality(intersection), Cardinality(union))

compute_dataflow_similarity(tree_a, tree_b) ==
  LET hashed_a == build_dataflow_hashes(tree_a)
      hashed_b == build_dataflow_hashes(tree_b)
      intersection == hashed_a \cap hashed_b
      union == hashed_a \cup hashed_b
  IN IF hashed_a = {} /\ hashed_b = {} THEN Scale
     ELSE IF union = {} THEN 0
     ELSE Round6(Cardinality(intersection), Cardinality(union))

\* A variant that leaves the data-flow layer out of the weighted sum.
compute_advanced_similarity_mut(a, b, w) ==
  LET ast_result == compute_ast_similarity(a, b)
      cfg_result == compute_cfg_similarity(a.normalised_tree, b.normalised_tree)
      df_result == compute_dataflow_similarity(a.normalised_tree, b.normalised_tree)
      final == w[1] * ast_result + w[2] * cfg_result
  IN [final_similarity_score |-> RoundDiv(final, 10),
      ast |-> ast_result, cfg |-> cfg_result, dataflow |-> df_result]

compute_advanced_similarity(a, b, w) ==
  LET ast_result == compute_ast_similarity(a, b)
      cfg_result == compute_cfg_similarity(a.normalised_tree, b.normalised_tree)
      df_result == compute_dataflow_similarity(a.normalised_tree, b.normalised_tree)
      final == w[1] * ast_result + w[2] * cfg_result + w[3] * df_result
  IN [final_similarity_score |-> RoundDiv(final, 10),
      ast |-> ast_result, cfg |-> cfg_result, dataflow |-> df_result]

(***************************************************************************)
(* similarity.py                                                           *)
(***************************************************************************)
\* (final_score, ast_score, cfg_score, dfg_score).  The fallback quotient
\* is kept at the 10^-6 resolution; with the set sizes of the model no
\* quotient lies within 10^-6 of a threshold or of a rounding tie.
pair_similarity_detail(a, b, w) ==
  IF a.normalised_tree # None /\ b.normalised_tree # None
  THEN LET adv == compute_advanced_similarity(a, b, w)
       IN [final |-> adv.final_similarity_score, ast |-> adv.ast,
           cfg |-> adv.cfg, dfg |-> adv.dataflow]
  ELSE LET union == a.hash_set \cup b.hash_set
           jaccard == IF union # {}
                      THEN Round6(Cardinality(a.hash_set \cap b.hash_set),
                                  Cardinality(union))
                      ELSE 0
       IN [final |-> jaccard, ast |-> jaccard, cfg |-> 0, dfg |-> 0]


\* list.sort(key=...): the stable ascending sort of s by the integer keys
\* key[1..Len(s)].
StableSortByKey(s, key) ==
  [p \in 1 .. Len(s) |->
     s[CHOOSE i \in 1 .. Len(s) :
         Cardinality({j \in 1 .. Len(s) :
                        key[j] < key[i] \/ (key[j] = key[i] /\ j < i)}) = p - 1]]

\* The order in which a process iterates over a set of digests: the
\* restriction to the set of the process's order of all digests.
IterationOrder(S, seed) == SelectSeq(seed, LAMBDA h : h \in S)

\* for la in lines_a: for lb in lines_b
CrossLines(lines_a, lines_b) ==
  LET m == Len(lines_b)
  IN [k \in 1 .. Len(lines_a) * m |->
        [file1_lines |-> lines_a[((k - 1) \div m) + 1],
         file2_lines |-> lines_b[((k - 1) % m) + 1]]]

RECURSIVE RegionCandidates(_, _, _)
RegionCandidates(order, a, b) ==
  IF order = <<>> THEN <<>>
  ELSE CrossLines(a.hash_to_lines[Head(order)], b.hash_to_lines[Head(order)])
       \o RegionCandidates(Tail(order), a, b)

\* A variant without the seen set.
RECURSIVE KeepRegions_mut(_, _)
KeepRegions_mut(cands, seen) ==
  IF cands = <<>> THEN <<>>
  ELSE LET r == Head(cands)
       IN IF r.file1_lines[1] = 0 \/ r.file2_lines[1] = 0
          THEN KeepRegions_mut(Tail(cands), seen)
          ELSE <<r>> \o KeepRegions_mut(Tail(cands), seen)

RECURSIVE KeepRegions(_, _)
KeepRegions(cands, seen) ==
  IF cands = <<>> THEN <<>>
  ELSE LET r == Head(cands)
       IN IF r.file1_lines[1] = 0 \/ r.file2_lines[1] = 0
          THEN KeepRegions(Tail(cands), seen)
          ELSE IF r \in seen
          THEN KeepRegions(Tail(cands), seen)
          ELSE <<r>> \o KeepRegions(Tail(cands), seen \cup {r})

matching_regions(a, b, seed) ==
  LET intersection == a.hash_set \cap b.hash_set
      found == KeepRegions(
                 RegionCandidates(IterationOrder(intersection, seed), a, b), {})
  IN StableSortByKey(found, [i \in DOMAIN found |-> found[i].file1_lines[1]])

\* One iteration of the comparison loops: the locals of the loop body.
Compare(item_a, item_b, w) ==
  LET d == pair_similarity_detail(item_a.value, item_b.value, w)
  IN [file1 |-> item_a.key, file2 |-> item_b.key,
      analysis_a |-> item_a.value, analysis_b |-> item_b.value,
      final |-> d.final, ast |-> d.ast, cfg |-> d.cfg, dfg |-> d.dfg]

Skipped(d, threshold) == d.final < threshold

pair_result(d, seed) ==
  [file1 |-> d.file1, file2 |-> d.file2,
   similarity_score |-> Round4(d.final),
   matching_regions |-> matching_regions(d.analysis_a, d.analysis_b, seed)]

\* results.sort(key=lambda r: r["similarity_score"], reverse=True)
SortByScoreDesc(results) ==
  StableSortByKey(results,
                  [i \in DOMAIN results |-> 0 - results[i].similarity_score])

\* A variant whose inner loop starts at j = i.
RECURSIVE LoopPairs_mut(_, _, _)
LoopPairs_mut(i, j, n) ==
  IF i > n THEN <<>>
  ELSE IF j > n THEN LoopPairs_mut(i + 1, i + 1, n)
  ELSE << <<i, j>> >> \o LoopPairs_mut(i, j + 1, n)

\* for i in range(n): for j in range(i + 1, n)
RECURSIVE LoopPairs(_, _, _)
LoopPairs(i, j, n) ==
  IF i > n THEN <<>>
  ELSE IF j > n THEN LoopPairs(i + 1, i + 2, n)
  ELSE << <<i, j>> >> \o LoopPairs(i, j + 1, n)

SortedItems(analyses) ==
  LET filenames == SetToSortedSeq(Keys(analyses))
  IN [i \in DOMAIN filenames |->
        [key |-> filenames[i], value |-> Lookup(analyses, filenames[i])]]

\* The pairs compute_similarity compares, in loop order.
similarity_loop(analyses, w) ==
  LET items == SortedItems(analyses)
      ij == LoopPairs(1, 2, Len(items))
  IN [k \in DOMAIN ij |-> Compare(items[ij[k][1]], items[ij[k][2]], w)]

\* A variant that compares every two files of the two groups taken together.
cross_loop_mut(group_a, group_b, w) ==
  LET items == group_a \o group_b
      ij == LoopPairs(1, 2, Len(items))
  IN [k \in DOMAIN ij |-> Compare(items[ij[k][1]], items[ij[k][2]], w)]

\* The pairs compute_cross_similarity compares, in loop order.
cross_loop(group_a, group_b, w) ==
  LET m == Len(group_b)
  IN [k \in 1 .. Len(group_a) * m |->
        Compare(group_a[((k - 1) \div m) + 1], group_b[((k - 1) % m) + 1], w)]

Emitted(loop, threshold, seed) ==
  LET kept == SelectSeq(loop, LAMBDA d : ~Skipped(d, threshold))
  IN [k \in DOMAIN kept |-> pair_result(kept[k], seed)]

compute_similarity(analyses, threshold, w, seed) ==
  SortByScoreDesc(
    Emitted(similarity_loop(analyses, w), threshold, seed))

compute_cross_similarity(group_a, group_b, threshold, w, seed) ==
  SortByScoreDesc(
    Emitted(cross_loop(group_a, group_b, w), threshold, seed))

(***************************************************************************)
(* graph_builder.py                                                        *)
(***************************************************************************)
\* idx = {name: i for i, name in enumerate(filenames)}
Idx(filenames, name) ==
  CHOOSE i \in DOMAIN filenames :
    filenames[i] = name /\ \A j \in DOMAIN filenames : filenames[j] = name => j <= i

\* A variant that writes matrix[i][j] only.
RECURSIVE MatrixFill_mut(_, _, _)
MatrixFill_mut(matrix, results, filenames) ==
  IF results = <<>> THEN matrix
  ELSE LET pair == Head(results)
           f1 == pair.file1
           f2 == pair.file2
       IN IF f1 \in Range(filenames) /\ f2 \in Range(filenames)
          THEN LET i == Idx(filenames, f1)
                   j == Idx(filenames, f2)
                   m1 == [matrix EXCEPT ![i][j] = Round4(pair.similarity_score)]
               IN MatrixFill_mut(m1, Tail(results), filenames)
          ELSE MatrixFill_mut(matrix, Tail(results), filenames)

RECURSIVE MatrixFill(_, _, _)
MatrixFill(matrix, results, filenames) ==
  IF results = <<>> THEN matrix
  ELSE LET pair == Head(results)
           f1 == pair.file1
           f2 == pair.file2
       IN IF f1 \in Range(filenames) /\ f2 \in Range(filenames)
          THEN LET i == Idx(filenames, f1)
                   j == Idx(filenames, f2)
                   m1 == [matrix EXCEPT ![i][j] = Round4(pair.similarity_score)]
                   m2 == [m1 EXCEPT ![j][i] = Round4(pair.similarity_score)]
               IN MatrixFill(m2, Tail(results), filenames)
          ELSE MatrixFill(matrix, Tail(results), filenames)

IdentityMatrix(n) == [i \in 1 .. n |-> [j \in 1 .. n |-> IF i = j THEN Scale ELSE 0]]

build_similarity_matrix(results, filenames) ==
  [files |-> filenames,
   matrix |-> MatrixFill(IdentityMatrix(Len(filenames)), results, filenames)]


\* A variant that also drops the pairs exactly at the threshold.
ClusterEdges_mut(results, threshold) ==
  SelectSeq(results, LAMBDA pair : ~(pair.similarity_score <= threshold))

\* The pairs detect_clusters keeps as edges.
ClusterEdges(results, threshold) ==
  SelectSeq(results, LAMBDA pair : ~(pair.similarity_score < threshold))

\* adj[f]
Adj(edges, f) ==
  {edges[k].file2 : k \in {x \in DOMAIN edges : edges[x].file1 = f}}
  \cup {edges[k].file1 : k \in {x \in DOMAIN edges : edges[x].file2 = f}}

AdjKeys(edges) ==
  {edges[k].file1 : k \in DOMAIN edges} \cup {edges[k].file2 : k \in DOMAIN edges}

\* edge_scores[(min(f1, f2), max(f1, f2))]: the last pair written wins.
HasEdgeScore(edges, a, b) ==
  \E k \in DOMAIN edges :
    Min2(edges[k].file1, edges[k].file2) = Min2(a, b)
    /\ Max2(edges[k].file1, edges[k].file2) = Max2(a, b)

EdgeScore(edges, a, b) ==
  LET ks == {k \in DOMAIN edges :
               Min2(edges[k].file1, edges[k].file2) = Min2(a, b)
               /\ Max2(edges[k].file1, edges[k].file2) = Max2(a, b)}
  IN edges[CHOOSE k \in ks : \A x \in ks : x <= k].similarity_score

\* while queue: ... ; returns the component in visiting order and the
\* visited set.
RECURSIVE Bfs(_, _, _, _)
Bfs(edges, queue, visited, component) ==
  IF queue = <<>> THEN [component |-> component, visited |-> visited]
  ELSE LET node == Head(queue)
           fresh == SetToSortedSeq(Adj(edges, node) \ visited)
       IN Bfs(edges, Tail(queue) \o fresh, visited \cup Range(fresh),
              Append(component, node))

RECURSIVE SumSeq(_)
SumSeq(s) == IF s = <<>> THEN 0 ELSE Head(s) + SumSeq(Tail(s))

\* cluster_scores, for i, a in enumerate(component): for b in component[i+1:]
ClusterScores(edges, component) ==
  LET ij == SelectSeq(LoopPairs(1, 2, Len(component)),
                      LAMBDA p : HasEdgeScore(edges, component[p[1]], component[p[2]]))
  IN [k \in DOMAIN ij |-> EdgeScore(edges, component[ij[k][1]], component[ij[k][2]])]

AverageSimilarity(cluster_scores) ==
  IF cluster_scores # <<>>
  THEN RoundDiv(SumSeq(cluster_scores), Len(cluster_scores) * 100) * 100
  ELSE 0

\* for start in sorted(adj.keys())
RECURSIVE ClusterLoop(_, _, _, _)
ClusterLoop(edges, starts, visited, clusters) ==
  IF starts = <<>> THEN clusters
  ELSE LET start == Head(starts)
       IN IF start \in visited
          THEN ClusterLoop(edges, Tail(starts), visited, clusters)
          ELSE LET found == Bfs(edges, <<start>>, visited \cup {start}, <<>>)
               IN IF Len(found.component) < 2
                  THEN ClusterLoop(edges, Tail(starts), found.visited, clusters)
                  ELSE ClusterLoop(edges, Tail(starts), found.visited,
                         Append(clusters,
                           [members |-> SetToSortedSeq(Range(found.component)),
                            average_similarity |->
                              AverageSimilarity(
                                ClusterScores(edges, found.component))]))

detect_clusters(results, threshold) ==
  LET edges == ClusterEdges(results, threshold)
  IN ClusterLoop(edges, SetToSortedSeq(AdjKeys(edges)), {}, <<>>)

\* A variant that drops a pair whose score equals the threshold.
GraphEdges_mut(results, threshold) ==
  LET kept == SelectSeq(results, LAMBDA pair : pair.similarity_score > threshold)
  IN [k \in DOMAIN kept |->
        [source |-> kept[k].file1, target |-> kept[k].file2,
         weight |-> Round4(kept[k].similarity_score)]]

\* The pairs build_similarity_graph keeps as edges, in the order of results.
GraphEdges(results, threshold) ==
  LET kept == SelectSeq(results, LAMBDA pair : ~(pair.similarity_score < threshold))
  IN [k \in DOMAIN kept |->
        [source |-> kept[k].file1, target |-> kept[k].file2,
         weight |-> Round4(kept[k].similarity_score)]]

\* nodes: sorted(all_files); edges: sorted by (source, target), stable.
build_similarity_graph(results, all_files, threshold) ==
  LET edges == GraphEdges(results, threshold)
      by_target == StableSortByKey(edges, [k \in DOMAIN edges |-> edges[k].target])
  IN [nodes |-> StableSortByKey(all_files, all_files),
      edges |-> StableSortByKey(by_target,
                                [k \in DOMAIN by_target |-> by_target[k].source])]

(***************************************************************************)
(* analysis_orchestrator.py                                                *)
(***************************************************************************)
\* The response assembled from the pairs and the file list.
Assemble(similarity_pairs, filenames) ==
  LET matrix == build_similarity_matrix(similarity_pairs, filenames)
  IN [files |-> filenames,
      pairs |-> similarity_pairs,
      matrix |-> [files |-> matrix.files, values |-> matrix.matrix],
      graph |-> build_similarity_graph(similarity_pairs, filenames, GraphThreshold),
      clusters |-> detect_clusters(similarity_pairs, ClusterThreshold)]

run_unified_analysis(analyses, similarity_pairs) ==
  Assemble(similarity_pairs, SetToSortedSeq(Keys(analyses)))


(***************************************************************************)
(* api/routes/analyze.py: the analysis requests                            *)
(***************************************************************************)
RECURSIVE Orderings(_)
Orderings(S) ==
  IF S = {} THEN {<<>>}
  ELSE UNION {{<<x>> \o p : p \in Orderings(S \ {x})} : x \in S}

\* Regions tie on their file1 start line only among the digests 1 .. 3 of
\* Sources, so only the relative order of these changes what a request
\* computes; the other digests follow in a fixed order.
SharedHashes == 1 .. 3

IterOrders ==
  {p \o SetToSortedSeq(Hashes \ SharedHashes) : p \in Orderings(SharedHashes)}

NoResponse == [files |-> <<>>, pairs |-> <<>>,
               matrix |-> [files |-> <<>>, values |-> <<>>],
               graph |-> [nodes |-> <<>>, edges |-> <<>>],
               clusters |-> <<>>]

\* No read request has been answered yet.
NoAnswer == [endpoint |-> "none"]

\* One upload list, archive or repository: the names of its files in the
\* order the handler takes them, their number, and what the handler has
\* put in analyses and in errors for them.
NewGroup(label) ==
  [label |-> label, files |-> <<>>, analyses |-> <<>>, received |-> 0, errors |-> <<>>]

Received(gs) == SumSeq([g \in DOMAIN gs |-> gs[g].received])

GroupLabels(gs) == {gs[g].label : g \in DOMAIN gs}

GroupOf(gs, label) == gs[CHOOSE g \in DOMAIN gs : gs[g].label = label].analyses

\* A variant that lists the files of the first group only.
AllAnalyses_mut(gs) == gs[1].analyses

\* all_analyses = {**group_a, **group_b}; all_analyses.update(group)
RECURSIVE AllAnalyses(_)
AllAnalyses(gs) ==
  IF gs = <<>> THEN <<>>
  ELSE DictMerge(AllAnalyses(SubSeq(gs, 1, Len(gs) - 1)), gs[Len(gs)].analyses)

\* analyze_google_sheet, step 4: the groups compared, in loop order.
SheetGroupPairs(gs) ==
  LET labels == SetToSortedSeq(GroupLabels(gs))
      ij == LoopPairs(1, 2, Len(labels))
  IN [k \in DOMAIN ij |-> <<GroupOf(gs, labels[ij[k][1]]), GroupOf(gs, labels[ij[k][2]])>>]

RECURSIVE SheetExtend(_, _, _)
SheetExtend(gp, w, seed) ==
  IF gp = <<>> THEN <<>>
  ELSE compute_cross_similarity(Head(gp)[1], Head(gp)[2], CrossThreshold, w, seed)
       \o SheetExtend(Tail(gp), w, seed)

RECURSIVE SheetLoop(_, _)
SheetLoop(gp, w) ==
  IF gp = <<>> THEN <<>>
  ELSE cross_loop(Head(gp)[1], Head(gp)[2], w) \o SheetLoop(Tail(gp), w)

\* The similarity_fn of each endpoint applied to its arguments.
SimilarityPairs(k, gs, w, seed) ==
  CASE k = "multi_file" -> compute_similarity(gs[1].analyses, AnalyzeThreshold, w, seed)
    [] k = "pair" -> compute_similarity(gs[1].analyses, PairThreshold, w, seed)
    [] k \in {"zip_cross", "github_cross"} ->
         compute_cross_similarity(gs[1].analyses, gs[2].analyses, CrossThreshold, w, seed)
    [] k = "google_sheet_batch" ->
         SortByScoreDesc(SheetExtend(SheetGroupPairs(gs), w, seed))

\* The comparisons behind SimilarityPairs, in loop order.
Comparisons(k, gs, w) ==
  CASE k \in {"multi_file", "pair"} -> similarity_loop(gs[1].analyses, w)
    [] k \in {"zip_cross", "github_cross"} ->
         cross_loop(gs[1].analyses, gs[2].analyses, w)
    [] k = "google_sheet_batch" -> SheetLoop(SheetGroupPairs(gs), w)

Threshold(k) ==
  CASE k = "multi_file" -> AnalyzeThreshold
    [] k = "pair" -> PairThreshold
    [] OTHER -> CrossThreshold

Respond(k, gs, w, seed) ==
  run_unified_analysis(AllAnalyses(gs), SimilarityPairs(k, gs, w, seed))

InitEnv ==
  /\ env \in WeightChoices
  /\ pc = "idle"
  /\ kind = "none"
  /\ groups = <<>>
  /\ details = <<>>
  /\ response = NoResponse
  /\ replay = NoResponse
  /\ analysis_store = <<>>
  /\ returned = {}
  /\ answer = NoAnswer

\* POST /analyze, /analyze-pair: the handler starts with empty analyses.
StartUpload(k) ==
  /\ pc = "idle"
  /\ k \in {"multi_file", "pair"}
  /\ kind' = k
  /\ groups' = <<NewGroup(0)>>
  /\ pc' = "ingest"
  /\ UNCHANGED <<env, details, response, replay,
               analysis_store, returned, answer>>

\* POST /compare-zips, /compare-github-repos, /analyze-google-sheet: the
\* first archive or repository, under its label.
StartGroups(k, label) ==
  /\ pc = "idle"
  /\ k \in {"zip_cross", "github_cross", "google_sheet_batch"}
  /\ label \in Labels
  /\ kind' = k
  /\ groups' = <<NewGroup(label)>>
  /\ pc' = "ingest"
  /\ UNCHANGED <<env, details, response, replay,
               analysis_store, returned, answer>>

\* The next archive (its label may repeat the first one's: both uploads can
\* carry the same file name) or the next repository (labels are distinct:
\* parse_student_csv drops a repeated URN).
NextGroup(label) ==
  /\ pc = "ingest"
  /\ label \in Labels
  /\ groups[Len(groups)].received >= 1
  /\ Received(groups) < MaxFiles
  /\ \/ kind \in {"zip_cross", "github_cross"} /\ Len(groups) = 1
     \/ kind = "google_sheet_batch" /\ label \notin GroupLabels(groups)
  /\ groups' = Append(groups, NewGroup(label))
  /\ UNCHANGED <<env, pc, kind, details, response, replay,
               analysis_store, returned, answer>>

\* _process_source(filename, source_code, analyses, errors) on the next
\* file of the current upload list, archive or repository.
ProcessSource(base, src) ==
  /\ pc = "ingest"
  /\ Received(groups) < MaxFiles
  /\ kind = "pair" => Received(groups) < 2
  /\ LET g == Len(groups)
         filename == Prefixed(groups[g].label, base, src.lang)
     IN /\ kind \in {"zip_cross", "github_cross", "google_sheet_batch"}
             => filename \notin Range(groups[g].files)
        /\ groups' = [groups EXCEPT
                        ![g].files = Append(@, filename),
                        ![g].analyses = DictSet(@, filename, FileAnalysisOf(filename, src)),
                        ![g].received = @ + 1]
  /\ UNCHANGED <<env, pc, kind, details, response, replay,
               analysis_store, returned, answer>>

Complete ==
  CASE kind = "multi_file" -> Received(groups) >= 2
    [] kind = "pair" -> Received(groups) = 2 /\ Len(groups[1].analyses) >= 2
    [] kind = "zip_cross" -> Len(groups) = 2 /\ groups[2].received >= 1
    [] kind = "github_cross" -> /\ Len(groups) = 2
                                /\ groups[2].received >= 1
                                /\ groups[1].analyses # <<>>
                                /\ groups[2].analyses # <<>>
    [] kind = "google_sheet_batch" -> Len(groups) >= 2 /\ groups[Len(groups)].received >= 1
    [] OTHER -> FALSE

\* The rest of the handler up to the collections of run_unified_analysis:
\* the comparator, then the aggregation.  AnalyzeAndStore is the same step
\* with the complete payload and _store_and_return.
RunAnalysis ==
  /\ pc = "ingest"
  /\ Complete
  /\ \E seed \in IterOrders : response' = Respond(kind, groups, env, seed)
  /\ details' = Comparisons(kind, groups, env)
  /\ pc' = "done"
  /\ UNCHANGED <<env, kind, groups, replay,
               analysis_store, returned, answer>>

\* /analyze-pair with fewer than two fingerprints: HTTP 400.
Reject ==
  /\ pc = "ingest"
  /\ kind = "pair"
  /\ Received(groups) = 2
  /\ Len(groups[1].analyses) < 2
  /\ pc' = "failed"
  /\ UNCHANGED <<env, kind, groups, details, response, replay,
               analysis_store, returned, answer>>

\* gs with the items of every mapping inserted in another order.
Reordered(gs) ==
  {r \in [DOMAIN gs -> UNION {Orderings(Range(gs[g].analyses)) : g \in DOMAIN gs}] :
     \A g \in DOMAIN gs : Range(r[g]) = Range(gs[g].analyses)}

\* The same request a second time: same file names and contents, the
\* mappings filled in any order, in a process with any hash seed.
Reanalyze ==
  /\ pc = "done"
  /\ \E seed \in IterOrders, r \in Reordered(groups) :
       replay' = Respond(kind, [g \in DOMAIN groups |-> [groups[g] EXCEPT !.analyses = r[g]]],
                         env, seed)
  /\ pc' = "replayed"
  /\ UNCHANGED <<env, kind, groups, details, response,
               analysis_store, returned, answer>>

Reset ==
  /\ pc \in {"done", "replayed", "failed"}
  /\ pc' = "idle"
  /\ kind' = "none"
  /\ groups' = <<>>
  /\ details' = <<>>
  /\ response' = NoResponse
  /\ replay' = NoResponse
  /\ UNCHANGED <<env, analysis_store, returned, answer>>

Init == InitEnv /\ env = DefaultWeights

Next ==
  \/ \E k \in {"multi_file", "pair"} : StartUpload(k)
  \/ \E k \in {"zip_cross", "google_sheet_batch"}, label \in Labels : StartGroups(k, label)
  \/ \E label \in Labels : NextGroup(label)
  \/ \E base \in Bases, src \in Sources : ProcessSource(base, src)
  \/ RunAnalysis
  \/ Reject
  \/ Reset

Spec == Init /\ [][Next]_vars

\* Any accepted weight configuration.
SpecEnv == InitEnv /\ [][Next]_vars

\* Requests, each possibly submitted a second time.
NextReplay == Next \/ Reanalyze

SpecReplay == Init /\ [][NextReplay]_vars


(***************************************************************************)
(* Requests with files that cannot be fingerprinted                        *)
(***************************************************************************)
\* What stops a file: the upload handlers test the extension and decode the
\* bytes themselves; an archive or a repository yields only decoded files
\* with a supported extension, which _process_source may fail to parse.
Faults(k) ==
  IF k \in {"multi_file", "pair"}
  THEN {"unsupported", "undecodable", "syntax_error"}
  ELSE {"syntax_error"}

\* The extensions a file stopped by fault can carry: is_supported refuses
\* the others, any supported file can hold bytes that are not UTF-8, and
\* only parse_code raises (the curly-brace parser recovers from errors).
FaultLangs(fault) ==
  CASE fault = "unsupported" -> {"txt"}
    [] fault = "undecodable" -> {"py", "js"}
    [] fault = "syntax_error" -> {"py"}

\* A variant that skips a file without a record.
RecordError_mut(errors, filename, fault) == errors

\* errors.append({"file": filename, "error": ...})
RecordError(errors, filename, fault) ==
  Append(errors, [file |-> filename, error |-> fault])

\* The next file of the request is skipped: one more record in errors.
SkipSource(base, lang, fault) ==
  /\ pc = "ingest"
  /\ Received(groups) < MaxFiles
  /\ kind = "pair" => Received(groups) < 2
  /\ fault \in Faults(kind)
  /\ lang \in FaultLangs(fault)
  /\ LET g == Len(groups)
         filename == Prefixed(groups[g].label, base, lang)
     IN /\ kind \in {"zip_cross", "github_cross", "google_sheet_batch"}
             => filename \notin Range(groups[g].files)
        /\ groups' = [groups EXCEPT
                        ![g].files = Append(@, filename),
                        ![g].errors = RecordError(@, filename, fault),
                        ![g].received = @ + 1]
  /\ UNCHANGED <<env, pc, kind, details, response, replay,
               analysis_store, returned, answer>>

\* The other HTTP 400 answers: /analyze with fewer than two uploads, an
\* archive without a supported file, a repository none of whose files was
\* fingerprinted.
RejectRequest ==
  /\ pc = "ingest"
  /\ \/ kind = "multi_file" /\ Received(groups) < 2
     \/ kind = "zip_cross" /\ groups[Len(groups)].received = 0
     \/ /\ kind = "github_cross"
        /\ Len(groups) = 2
        /\ groups[1].analyses = <<>> \/ groups[2].analyses = <<>>
  /\ pc' = "failed"
  /\ UNCHANGED <<env, kind, groups, details, response, replay,
               analysis_store, returned, answer>>

NextErrors ==
  \/ \E k \in {"multi_file", "pair"} : StartUpload(k)
  \/ \E k \in {"zip_cross", "github_cross"}, label \in Labels : StartGroups(k, label)
  \/ \E label \in Labels : NextGroup(label)
  \/ \E base \in Bases, src \in Sources : ProcessSource(base, src)
  \/ \E base \in Bases, lang \in {"py", "js", "txt"}, fault \in Faults(kind) :
       SkipSource(base, lang, fault)
  \/ RunAnalysis
  \/ Reject
  \/ RejectRequest
  \/ Reset

\* Requests to the four endpoints, any file of which may fail.
SpecErrors == Init /\ [][NextErrors]_vars


(***************************************************************************)
(* The two edge-set layers on their own: any two normalised trees          *)
(***************************************************************************)
EdgeHashes == 1 .. MaxEdges

Trees == {[present |-> TRUE, cfg |-> c, dfg |-> d] : c \in SUBSET EdgeHashes,
                                                     d \in SUBSET EdgeHashes}

InitLayers ==
  /\ env = DefaultWeights
  /\ pc = "layers"
  /\ kind = "none"
  /\ groups = <<>>
  /\ details = <<>>
  /\ response = NoResponse
  /\ replay = NoResponse
  /\ analysis_store = <<>>
  /\ returned = {}
  /\ answer = NoAnswer

\* compute_cfg_similarity and compute_dataflow_similarity on two trees.
CompareLayers(tree_a, tree_b) ==
  /\ pc = "layers"
  /\ details = <<>>
  /\ details' = <<[tree_a |-> tree_a, tree_b |-> tree_b,
                   cfg |-> compute_cfg_similarity(tree_a, tree_b),
                   dfg |-> compute_dataflow_similarity(tree_a, tree_b)]>>
  /\ UNCHANGED <<env, pc, kind, groups, response, replay,
               analysis_store, returned, answer>>

NextLayers == \E tree_a \in Trees, tree_b \in Trees : CompareLayers(tree_a, tree_b)

SpecLayers == InitLayers /\ [][NextLayers]_vars

(***************************************************************************)
(* The aggregator on its own: any list of pairs, a file list               *)
(***************************************************************************)
AggFiles == 1 .. 4

AggFileLists == {<<1, 2, 3>>, <<1, 2, 3, 4>>}

\* Scores below, at and above the cluster threshold; the last one has more
\* than four decimals.
AggScores == {200000, ClusterThreshold, 812345}

AggEnds == {<<1, 2>>, <<2, 1>>, <<1, 3>>, <<2, 3>>, <<3, 4>>, <<1, 1>>}

AggPairs ==
  {[file1 |-> e[1], file2 |-> e[2], similarity_score |-> sc, matching_regions |-> <<>>] :
     e \in AggEnds, sc \in AggScores}

InitAgg ==
  /\ env = DefaultWeights
  /\ pc = "agg"
  /\ kind = "none"
  /\ groups = <<>>
  /\ details = <<>>
  /\ \E filenames \in AggFileLists : response = Assemble(<<>>, filenames)
  /\ replay = NoResponse
  /\ analysis_store = <<>>
  /\ returned = {}
  /\ answer = NoAnswer

\* build_similarity_matrix and detect_clusters on the list with one more pair.
AggregatePair(pair) ==
  /\ pc = "agg"
  /\ Len(response.pairs) < MaxPairs
  /\ response' = Assemble(Append(response.pairs, pair), response.files)
  /\ UNCHANGED <<env, pc, kind, groups, details, replay,
               analysis_store, returned, answer>>

NextAgg == \E pair \in AggPairs : AggregatePair(pair)

SpecAgg == InitAgg /\ [][NextAgg]_vars


(***************************************************************************)
(* build_similarity_graph on its own: any list of pairs, any threshold     *)
(***************************************************************************)
GraphFiles == <<1, 2, 3>>

\* The default threshold and another one.
GraphThresholds == {GraphThreshold, ClusterThreshold}

\* A score that is below the default threshold and rounds to it, the two
\* thresholds, and a score with more than four decimals.
GraphScores == {499950, GraphThreshold, ClusterThreshold, 812345}

GraphEnds == {<<1, 2>>, <<2, 1>>, <<1, 3>>, <<3, 2>>}

GraphPairs ==
  {[file1 |-> e[1], file2 |-> e[2], similarity_score |-> sc, matching_regions |-> <<>>] :
     e \in GraphEnds, sc \in GraphScores}

InitGraph ==
  /\ env = DefaultWeights
  /\ pc = "graph"
  /\ kind = "none"
  /\ groups = <<>>
  /\ \E threshold \in GraphThresholds :
       details = <<[results |-> <<>>, all_files |-> GraphFiles, threshold |-> threshold,
                    graph |-> build_similarity_graph(<<>>, GraphFiles, threshold)]>>
  /\ response = NoResponse
  /\ replay = NoResponse
  /\ analysis_store = <<>>
  /\ returned = {}
  /\ answer = NoAnswer

\* build_similarity_graph on the list with one more pair.
BuildGraph(pair) ==
  /\ pc = "graph"
  /\ Len(details[1].results) < MaxPairs
  /\ LET results == Append(details[1].results, pair)
     IN details' = <<[details[1] EXCEPT
                        !.results = results,
                        !.graph = build_similarity_graph(results, details[1].all_files,
                                                         details[1].threshold)]>>
  /\ UNCHANGED <<env, pc, kind, groups, response, replay,
                 analysis_store, returned, answer>>

NextGraph == \E pair \in GraphPairs : BuildGraph(pair)

SpecGraph == InitGraph /\ [][NextGraph]_vars


(***************************************************************************)
(* _matching_regions as a function of two fingerprints and the process's   *)
(* iteration order                                                         *)
(***************************************************************************)
\* Recorded nodes: a root without line information, two structures on the
\* same line, a structure that starts on line 1 and ends on line 2, a
\* structure on line 2.
RegionNodes ==
  {Node(1, 0, 0), Node(1, 1, 1), Node(2, 1, 1), Node(2, 1, 2), Node(3, 2, 2)}

RECURSIVE NodeLists(_)
NodeLists(n) ==
  IF n = 0 THEN {<<>>}
  ELSE LET shorter == NodeLists(n - 1)
       IN shorter \cup {Append(l, x) : l \in {y \in shorter : Len(y) = n - 1}, x \in RegionNodes}

RegionFiles == {generate_subtree_hashes(l) : l \in NodeLists(MaxNodes) \ {<<>>}}

InitRegions ==
  /\ env = DefaultWeights
  /\ pc = "regions"
  /\ kind = "none"
  /\ groups = <<>>
  /\ details = <<>>
  /\ response = NoResponse
  /\ replay = NoResponse
  /\ analysis_store = <<>>
  /\ returned = {}
  /\ answer = NoAnswer

MatchRegions(analysis_a, analysis_b, seed) ==
  /\ pc = "regions"
  /\ details = <<>>
  /\ details' = <<[analysis_a |-> analysis_a, analysis_b |-> analysis_b,
                   regions |-> matching_regions(analysis_a, analysis_b, seed)]>>
  /\ UNCHANGED <<env, pc, kind, groups, response, replay,
               analysis_store, returned, answer>>

NextRegions ==
  /\ details = <<>>
  /\ \E analysis_a \in RegionFiles, analysis_b \in RegionFiles, seed \in IterOrders :
       MatchRegions(analysis_a, analysis_b, seed)

SpecRegions == InitRegions /\ [][NextRegions]_vars

(***************************************************************************)
(* The CFG and DFG layers on a scripting-family module.                    *)
(*                                                                         *)
(* A module is its sequence of top-level items: function definitions       *)
(*   [type "FunctionDef", args, vararg, body]                              *)
(* and statements                                                          *)
(*   [type "Assign" | "Return" | "If" | "While", target, used, body]       *)
(* where used lists the Name(Load) occurrences of the value or test in     *)
(* visit order.  An identifier is [pre, idx]: pre "user" for an ordinary   *)
(* name of the source, pre "var" for the text var_<idx>, pre "lv" for      *)
(* lv_<idx>.                                                               *)
(***************************************************************************)
NoName == [pre |-> "none", idx |-> 0]
User(n) == [pre |-> "user", idx |-> n]
Var(n) == [pre |-> "var", idx |-> n]
Lv(n) == [pre |-> "lv", idx |-> n]
ReturnSink == [pre |-> "__return__", idx |-> 0]

Assign(target, used) == [type |-> "Assign", target |-> target, used |-> used, body |-> <<>>]
Return(used) == [type |-> "Return", target |-> NoName, used |-> used, body |-> <<>>]
If(used, body) == [type |-> "If", target |-> NoName, used |-> used, body |-> body]
While(used, body) == [type |-> "While", target |-> NoName, used |-> used, body |-> body]
\* for target in <used>: body;  target op= <used>;  target: T = <used>
For(target, used, body) == [type |-> "For", target |-> target, used |-> used, body |-> body]
AugAssign(target, used) ==
  [type |-> "AugAssign", target |-> target, used |-> used, body |-> <<>>]
AnnAssign(target, used) ==
  [type |-> "AnnAssign", target |-> target, used |-> used, body |-> <<>>]
FunctionDef(args, vararg, body) ==
  [type |-> "FunctionDef", args |-> args, vararg |-> vararg, body |-> body]

\* _CFG_SCOPE_NODES, for the statement types above.
CfgScopeNodes == {"If", "For", "While"}

\* The Name nodes of a statement list in visit order: targets before the
\* value, the test before the body.
RECURSIVE VisitNames(_)
VisitNames(stmts) ==
  IF stmts = <<>> THEN <<>>
  ELSE LET st == Head(stmts)
       IN (IF st.target # NoName THEN <<st.target>> ELSE <<>>)
          \o st.used \o VisitNames(st.body) \o VisitNames(Tail(stmts))

\* The keys of a renaming map in insertion order.
RECURSIVE FirstSeen(_, _)
FirstSeen(names, seen) ==
  IF names = <<>> THEN seen
  ELSE FirstSeen(Tail(names),
                 IF Head(names) \in Range(seen) THEN seen ELSE Append(seen, Head(names)))

Position(seq, x) == CHOOSE i \in DOMAIN seq : seq[i] = x

RECURSIVE RenameStmts(_, _, _)
RenameStmts(stmts, map, pre) ==
  IF stmts = <<>> THEN <<>>
  ELSE LET st == Head(stmts)
           name(x) == [pre |-> pre, idx |-> Position(map, x)]
       IN <<[type |-> st.type,
             target |-> IF st.target = NoName THEN NoName ELSE name(st.target),
             used |-> [i \in DOMAIN st.used |-> name(st.used[i])],
             body |-> RenameStmts(st.body, map, pre)]>>
          \o RenameStmts(Tail(stmts), map, pre)

\* The identifiers _canonical_var meets in one top-level item: args.args,
\* then the Name nodes of the body.  The other parameters are not visited.
ItemVarNames(item) ==
  IF item.type = "FunctionDef" THEN item.args \o VisitNames(item.body)
  ELSE VisitNames(<<item>>)

RECURSIVE ModuleVarNames(_)
ModuleVarNames(tree) ==
  IF tree = <<>> THEN <<>> ELSE ItemVarNames(Head(tree)) \o ModuleVarNames(Tail(tree))

\* normalize_ast, as far as identifiers go: one var_N numbering for the
\* whole module, in order of first appearance.
normalize_ast(tree) ==
  LET var_map == FirstSeen(ModuleVarNames(tree), <<>>)
  IN [i \in DOMAIN tree |->
        IF tree[i].type = "FunctionDef"
        THEN FunctionDef([k \in DOMAIN tree[i].args |-> Var(Position(var_map, tree[i].args[k]))],
                         tree[i].vararg,
                         RenameStmts(tree[i].body, var_map, "var"))
        ELSE RenameStmts(<<tree[i]>>, var_map, "var")[1]]

\* _local_canonical_renamer: a fresh lv_N numbering over every arg and Name
\* node of the function.
local_canonical_renamer(func_node) ==
  LET star == IF func_node.vararg = NoName THEN <<>> ELSE <<func_node.vararg>>
      var_map == FirstSeen(func_node.args \o star \o VisitNames(func_node.body), <<>>)
  IN FunctionDef([k \in DOMAIN func_node.args |-> Lv(Position(var_map, func_node.args[k]))],
                 IF func_node.vararg = NoName THEN NoName
                 ELSE Lv(Position(var_map, func_node.vararg)),
                 RenameStmts(func_node.body, var_map, "lv"))

\* _DFG over a statement list, given the names defined so far: the edges in
\* the order edges.add is called, each with the statement that adds it and
\* the content of defined at that moment.  An assignment adds its target to
\* defined first and then an edge for every used name other than the
\* target; a for loop does the same without the test u != d; a return adds
\* an edge only for a used name that is in defined.
RECURSIVE DfgEmitted(_, _)
DfgEmitted(stmts, defined) ==
  IF stmts = <<>> THEN <<>>
  ELSE LET st == Head(stmts)
           rest == st.body \o Tail(stmts)
           Emit(used, d, seen) ==
             [k \in DOMAIN used |->
                [src |-> used[k], dst |-> d, by |-> st.type, defined |-> seen]]
       IN CASE st.type \in {"Assign", "AugAssign", "AnnAssign"} ->
                 Emit(SelectSeq(st.used, LAMBDA u : u # st.target), st.target,
                      defined \cup {st.target})
                 \o DfgEmitted(rest, defined \cup {st.target})
            [] st.type = "For" ->
                 Emit(st.used, st.target, defined \cup {st.target})
                 \o DfgEmitted(rest, defined \cup {st.target})
            [] st.type = "Return" ->
                 Emit(SelectSeq(st.used, LAMBDA u : u \in defined), ReturnSink, defined)
                 \o DfgEmitted(rest, defined)
            [] OTHER -> DfgEmitted(rest, defined)

\* The set edges after _DFG().visit over a statement list.
DfgVisit(stmts, defined, edges) ==
  LET emitted == DfgEmitted(stmts, defined)
  IN edges \cup {<<emitted[k].src, emitted[k].dst>> : k \in DOMAIN emitted}

dataflow_edges_for_scope(scope_node) ==
  DfgVisit(scope_node.body, Range(scope_node.args), {})

Functions(tree) == SelectSeq(tree, LAMBDA item : item.type = "FunctionDef")

\* _build_dataflow_hashes: the digest of a token is the token.
DataflowHashSet(tree) ==
  LET fs == Functions(tree)
  IN UNION {{[token |-> "DFG_EDGE", src |-> e[1], dst |-> e[2]] :
               e \in dataflow_edges_for_scope(local_canonical_renamer(fs[i]))} :
            i \in DOMAIN fs}

\* _visit over a statement list: the counter and the edges afterwards.
RECURSIVE CfgVisit(_, _, _, _)
CfgVisit(stmts, parent_id, counter, edges) ==
  IF stmts = <<>> THEN [counter |-> counter, edges |-> edges]
  ELSE LET st == Head(stmts)
       IN IF st.type \in CfgScopeNodes
          THEN LET inner == CfgVisit(st.body, counter, counter + 1,
                                     edges \cup {<<parent_id, counter>>})
               IN CfgVisit(Tail(stmts), parent_id, inner.counter, inner.edges)
          ELSE CfgVisit(Tail(stmts), parent_id, counter, edges)

cfg_edges_for_function(func_node) == CfgVisit(func_node.body, 0, 0, {}).edges

\* node_count = counter[0] + 1
cfg_node_count(func_node) == CfgVisit(func_node.body, 0, 0, {}).counter + 1

\* _build_cfg_hashes: the edges of every function with local ids, then the
\* edges of the module-level statements with the functions left out.
CfgHashSet(tree) ==
  LET fs == Functions(tree)
      module == SelectSeq(tree, LAMBDA item : item.type # "FunctionDef")
  IN UNION {{[token |-> "CFG_EDGE", src |-> e[1], dst |-> e[2]] :
               e \in cfg_edges_for_function(fs[i])} : i \in DOMAIN fs}
     \cup {[token |-> "CFG_MODULE_EDGE", src |-> e[1], dst |-> e[2]] :
             e \in CfgVisit(module, 0, 0, {}).edges}

\* def g(a, b): c = a + b; if c: c = a; return c
SampleG ==
  FunctionDef(<<User(1), User(2)>>, NoName,
              <<Assign(User(3), <<User(1), User(2)>>),
                If(<<User(3)>>, <<Assign(User(3), <<User(1)>>)>>),
                Return(<<User(3)>>)>>)

\* def h(x): y = x; while y: y = y; if x: return y
SampleH ==
  FunctionDef(<<User(4)>>, NoName,
              <<Assign(User(5), <<User(4)>>),
                While(<<User(5)>>, <<Assign(User(5), <<User(5)>>)>>),
                If(<<User(4)>>, <<Return(<<User(5)>>)>>)>>)

\* def k(*var_1): y = var_1; return y
SampleK ==
  FunctionDef(<<>>, Var(1), <<Assign(User(5), <<Var(1)>>), Return(<<User(5)>>)>>)

\* def m(*rest): z = rest; return z
SampleM ==
  FunctionDef(<<>>, User(6), <<Assign(User(7), <<User(6)>>), Return(<<User(7)>>)>>)

\* if a: t = a      (a module-level statement)
SampleT == If(<<User(1)>>, <<Assign(User(8), <<User(1)>>)>>)

Items == {SampleG, SampleH, SampleK, SampleM, SampleT}

\* The modules of up to n different items.
RECURSIVE Modules(_)
Modules(n) ==
  IF n = 0 THEN {<<>>}
  ELSE LET shorter == Modules(n - 1)
       IN shorter \cup {Append(t, x) : t \in {y \in shorter : Len(y) = n - 1}, x \in Items}

ModuleTrees == {t \in Modules(MaxItems) : t # <<>> /\ Cardinality(Range(t)) = Len(t)}

FunctionSlots(tree) == {i \in DOMAIN tree : tree[i].type = "FunctionDef"}

\* The module with its function definitions in the order perm (a sequence
\* of the function positions); the other statements stay where they are.
PermuteFunctions(tree, perm) ==
  LET slots == SetToSortedSeq(FunctionSlots(tree))
  IN [i \in DOMAIN tree |->
        IF i \in FunctionSlots(tree) THEN tree[perm[Position(slots, i)]] ELSE tree[i]]

InitModules ==
  /\ env = DefaultWeights
  /\ pc = "modules"
  /\ kind = "none"
  /\ groups = <<>>
  /\ details = <<>>
  /\ response = NoResponse
  /\ replay = NoResponse
  /\ analysis_store = <<>>
  /\ returned = {}
  /\ answer = NoAnswer

\* The CFG and DFG hash sets of a module and of a reordering of it, each
\* computed on the normalised tree as _process_source keeps it.
HashLayers(tree, perm) ==
  /\ pc = "modules"
  /\ details = <<>>
  /\ LET reordered == PermuteFunctions(tree, perm)
     IN details' = <<[tree |-> tree, reordered |-> reordered,
                      cfg_a |-> CfgHashSet(normalize_ast(tree)),
                      cfg_b |-> CfgHashSet(normalize_ast(reordered)),
                      dfg_a |-> DataflowHashSet(normalize_ast(tree)),
                      dfg_b |-> DataflowHashSet(normalize_ast(reordered))]>>
  /\ UNCHANGED <<env, pc, kind, groups, response, replay,
               analysis_store, returned, answer>>

NextModules ==
  /\ details = <<>>
  /\ \E tree \in ModuleTrees : \E perm \in Orderings(FunctionSlots(tree)) :
       HashLayers(tree, perm)

SpecModules == InitModules /\ [][NextModules]_vars


(***************************************************************************)
(* _cfg_edges_for_function and _dataflow_edges_for_scope on one function   *)
(* (pass statements, which add nothing to either, are left out)            *)
(***************************************************************************)
MaxScopes == 3
MaxStmts == 2

\* The statement lists with at most n scope-starting statements and nothing
\* else, nested and in sequence in every way.
RECURSIVE ScopeForests(_)
ScopeForests(n) ==
  IF n = 0 THEN {<<>>}
  ELSE {<<>>} \cup
       UNION {{<<[type |-> ty, target |-> NoName, used |-> <<User(1)>>, body |-> inner]>>
                 \o rest :
                 ty \in {"If", "While"}, inner \in ScopeForests(k),
                 rest \in ScopeForests(n - 1 - k)} : k \in 0 .. n - 1}

\* Functions def f(a) whose bodies are these lists.
CfgFunctions == {FunctionDef(<<User(1)>>, NoName, body) : body \in ScopeForests(MaxScopes)}

\* The defining statements and the return over the names a and b.
FlowNames == {User(1), User(2)}

FlowStatements ==
  {Assign(t, <<u>>) : t \in FlowNames, u \in FlowNames}
  \cup {AugAssign(t, <<u>>) : t \in FlowNames, u \in FlowNames}
  \cup {AnnAssign(t, <<u>>) : t \in FlowNames, u \in FlowNames}
  \cup {For(t, <<u>>, <<>>) : t \in FlowNames, u \in FlowNames}
  \cup {Return(<<u>>) : u \in FlowNames}

\* Functions def f() and def f(a) with up to MaxStmts of these statements.
FlowFunctions ==
  {FunctionDef(args, NoName, body) :
     args \in {<<>>, <<User(1)>>},
     body \in UNION {[1 .. n -> FlowStatements] : n \in 0 .. MaxStmts}}

InitFunctions ==
  /\ env = DefaultWeights
  /\ pc = "functions"
  /\ kind = "none"
  /\ groups = <<>>
  /\ details = <<>>
  /\ response = NoResponse
  /\ replay = NoResponse
  /\ analysis_store = <<>>
  /\ returned = {}
  /\ answer = NoAnswer

\* _cfg_edges_for_function(func_a) and _cfg_edges_for_function(func_b)
CfgEdges(func_a, func_b) ==
  /\ pc = "functions"
  /\ details = <<>>
  /\ details' = <<[op |-> "cfg", func_a |-> func_a, func_b |-> func_b,
                   node_count_a |-> cfg_node_count(func_a),
                   edges_a |-> cfg_edges_for_function(func_a),
                   edges_b |-> cfg_edges_for_function(func_b)]>>
  /\ UNCHANGED <<env, pc, kind, groups, response, replay,
                 analysis_store, returned, answer>>

\* _dataflow_edges_for_scope(_local_canonical_renamer(func_node)), as
\* _build_dataflow_hashes calls it.
DataflowEdges(func_node) ==
  /\ pc = "functions"
  /\ details = <<>>
  /\ LET renamed == local_canonical_renamer(func_node)
     IN details' = <<[op |-> "dfg", func_node |-> func_node,
                      args |-> Range(renamed.args),
                      emitted |-> DfgEmitted(renamed.body, Range(renamed.args)),
                      edges |-> dataflow_edges_for_scope(renamed)]>>
  /\ UNCHANGED <<env, pc, kind, groups, response, replay,
                 analysis_store, returned, answer>>

NextFunctions ==
  /\ details = <<>>
  /\ \/ \E func_a \in CfgFunctions, func_b \in CfgFunctions : CfgEdges(func_a, func_b)
     \/ \E func_node \in FlowFunctions : DataflowEdges(func_node)

SpecFunctions == InitFunctions /\ [][NextFunctions]_vars


(***************************************************************************)
(* advanced_similarity.py: the flag and the confidence label of a score    *)
(***************************************************************************)
\* _CONFIDENCE_BANDS
CONFIDENCE_BANDS ==
  <<[threshold |-> 850000, label |-> "VERY HIGH"],
    [threshold |-> 750000, label |-> "HIGH"],
    [threshold |-> 600000, label |-> "MODERATE"],
    [threshold |-> 0, label |-> "LOW"]>>

\* A variant whose flag needs a score above the threshold.
plagiarism_flag_mut(score) == score > PlagiarismThreshold

plagiarism_flag(score) == score >= PlagiarismThreshold

\* The label of the first band, in list order, whose threshold the score
\* reaches; "LOW" when the loop ends without one.
RECURSIVE FirstBand(_, _)
FirstBand(bands, score) ==
  IF bands = <<>> THEN "LOW"
  ELSE IF score >= Head(bands).threshold THEN Head(bands).label
  ELSE FirstBand(Tail(bands), score)

confidence_level(score) == FirstBand(CONFIDENCE_BANDS, score)

\* The scores of [0, 1] on a grid, and the two neighbours of every band
\* threshold at the resolution of the scores.
LabelledScores ==
  {k * (Scale \div ScoreSteps) : k \in 0 .. ScoreSteps}
  \cup UNION {{CONFIDENCE_BANDS[b].threshold - 1, CONFIDENCE_BANDS[b].threshold,
               CONFIDENCE_BANDS[b].threshold + 1} \cap (0 .. Scale) :
              b \in DOMAIN CONFIDENCE_BANDS}

InitLabels ==
  /\ env = DefaultWeights
  /\ pc = "labels"
  /\ kind = "none"
  /\ groups = <<>>
  /\ details = <<>>
  /\ response = NoResponse
  /\ replay = NoResponse
  /\ analysis_store = <<>>
  /\ returned = {}
  /\ answer = NoAnswer

\* build_advanced_response: the two helpers on the final score.
LabelScore(score) ==
  /\ pc = "labels"
  /\ details = <<>>
  /\ details' = <<[score |-> score,
                   plagiarism_flag |-> plagiarism_flag(score),
                   confidence_level |-> confidence_level(score)]>>
  /\ UNCHANGED <<env, pc, kind, groups, response, replay,
                 analysis_store, returned, answer>>

NextLabels ==
  /\ details = <<>>
  /\ \E score \in LabelledScores : LabelScore(score)

SpecLabels == InitLabels /\ [][NextLabels]_vars

(***************************************************************************)
(* Syntax trees and the AST fingerprinter.                                 *)
(*                                                                         *)
(* A tree node is [type, children, start_line, end_line, name, value]:     *)
(* an ast.AST object of the scripting family (type is the class name), a   *)
(* named Tree-sitter node (type is the grammar's node type) or a Unified   *)
(* IR dict.  name and value are "" when the node has none.  A digest is    *)
(* the fingerprint it is computed from, [type, children]: SHA-256 keeps    *)
(* different fingerprints apart.                                           *)
(***************************************************************************)
Tree(type, children, s, e) ==
  [type |-> type, children |-> children, start_line |-> s, end_line |-> e,
   name |-> "", value |-> ""]

Ident(type, name, children, s, e) ==
  [type |-> type, children |-> children, start_line |-> s, end_line |-> e,
   name |-> name, value |-> ""]

Literal(type, value, children, s, e) ==
  [type |-> type, children |-> children, start_line |-> s, end_line |-> e,
   name |-> "", value |-> value]

\* _TRIVIAL_NODES (ast_parser.py), for the node types of the model.
TRIVIAL_NODES == {"Name", "Constant", "Load", "Store", "Add", "Mult", "arg"}

\* TRIVIAL_IR_TYPES (unified_normalizer.py), for the node types of the model.
TRIVIAL_IR_TYPES ==
  TRIVIAL_NODES \cup {"identifier", "string", "number", "true", "false",
                      "property_identifier"}

\* _TS_TO_UNIFIED, for the node types of the model; other types pass.
TsToUnified(ts_type) ==
  CASE ts_type = "program" -> "Module"
    [] ts_type = "function_declaration" -> "FunctionDeclaration"
    [] ts_type = "arrow_function" -> "ArrowFunction"
    [] ts_type = "statement_block" -> "Block"
    [] ts_type = "expression_statement" -> "ExpressionStatement"
    [] ts_type = "return_statement" -> "ReturnStatement"
    [] ts_type = "binary_expression" -> "BinaryExpression"
    [] ts_type = "call_expression" -> "CallExpression"
    [] ts_type = "jsx_self_closing_element" -> "JSXSelfClosingElement"
    [] ts_type = "jsx_attribute" -> "JSXAttribute"
    [] ts_type = "jsx_expression" -> "JSXExpression"
    [] OTHER -> ts_type

\* The order of the digests as strings, up to the choice of the order: by
\* type in the order of TypeOrder, then by children, first difference
\* first, a prefix before its extensions.
TypeOrder ==
  <<"Module", "FunctionDef", "ClassDef", "arguments", "arg", "Expr", "Constant",
    "Return", "Assign", "BinOp", "Name", "Load", "Store", "Add", "Mult",
    "FunctionDeclaration", "ArrowFunction", "Block", "ExpressionStatement",
    "ReturnStatement", "BinaryExpression", "JSXSelfClosingElement",
    "JSXAttribute", "JSXExpression", "formal_parameters", "identifier", "property_identifier",
    "string", "string_fragment", "number", "true", "false">>

TypeCode(type) == CHOOSE i \in DOMAIN TypeOrder : TypeOrder[i] = type

RECURSIVE DigestLess(_, _)
RECURSIVE DigestsLess(_, _)
DigestLess(a, b) ==
  IF a.type # b.type THEN TypeCode(a.type) < TypeCode(b.type)
  ELSE DigestsLess(a.children, b.children)

DigestsLess(x, y) ==
  IF y = <<>> THEN FALSE
  ELSE IF x = <<>> THEN TRUE
  ELSE IF Head(x) = Head(y) THEN DigestsLess(Tail(x), Tail(y))
  ELSE DigestLess(Head(x), Head(y))

\* sorted(child_hashes)
RECURSIVE InsertDigest(_, _)
InsertDigest(sorted, h) ==
  IF sorted = <<>> THEN <<h>>
  ELSE IF DigestLess(h, Head(sorted)) THEN <<h>> \o sorted
  ELSE <<Head(sorted)>> \o InsertDigest(Tail(sorted), h)

RECURSIVE SortDigests(_)
SortDigests(hashes) ==
  IF hashes = <<>> THEN <<>>
  ELSE InsertDigest(SortDigests(Tail(hashes)), Head(hashes))

\* A variant that joins the child hashes in the order of the children.
Fingerprint_mut(node_type, child_hashes) ==
  [type |-> node_type, children |-> child_hashes]

\* The digest of NodeType|h1|h2|... with the child hashes sorted.
Fingerprint(node_type, child_hashes) ==
  [type |-> node_type, children |-> SortDigests(child_hashes)]

\* A variant that records the trivial nodes too.
Recorded_mut(node_type, trivial) == TRUE

\* if node_type not in _TRIVIAL_NODES
Recorded(node_type, trivial) == node_type \notin trivial

\* _collect(node) of generate_subtree_hashes and of hash_ir: the hash of the
\* node and the SubtreeInfo records appended during the call, the records
\* of the children before the node's own.
RECURSIVE Collect(_, _)
RECURSIVE CollectChildren(_, _)
CollectChildren(children, trivial) ==
  IF children = <<>> THEN [hashes |-> <<>>, infos |-> <<>>]
  ELSE LET first == Collect(Head(children), trivial)
           rest == CollectChildren(Tail(children), trivial)
       IN [hashes |-> <<first.h>> \o rest.hashes, infos |-> first.infos \o rest.infos]

Collect(node, trivial) ==
  LET sub == CollectChildren(node.children, trivial)
      h == Fingerprint(node.type, sub.hashes)
  IN [h |-> h,
      infos |-> sub.infos \o
                (IF Recorded(node.type, trivial)
                 THEN <<Node(h, node.start_line, node.end_line)>> ELSE <<>>)]

\* generate_subtree_hashes(tree) on an ast tree.
subtree_hashes(tree) == generate_subtree_hashes(Collect(tree, TRIVIAL_NODES).infos)

\* hash_ir(ir) on a Unified IR tree.
hash_ir(ir) == generate_subtree_hashes(Collect(ir, TRIVIAL_IR_TYPES).infos)

(***************************************************************************)
(* normalizer.py and unified_normalizer.py on syntax trees.                *)
(*                                                                         *)
(* The trees of the model use the node types of TypeOrder.  The children   *)
(* of a FunctionDef are its arguments node and then its body; the children *)
(* of a Module and of a ClassDef (without bases) are the body.             *)
(***************************************************************************)
StrTexts == {"'doc'", "'s'", "\"doc\"", "\"s\""}

CanonVars == <<"var_1", "var_2", "var_3", "var_4", "var_5", "var_6">>
CanonFuncs == <<"func_1", "func_2", "func_3", "func_4", "func_5", "func_6">>
CanonHooks == <<"hook_1", "hook_2", "hook_3", "hook_4", "hook_5", "hook_6">>

\* _REACT_HOOKS
REACT_HOOKS ==
  {"useState", "useEffect", "useContext", "useReducer", "useCallback", "useMemo", "useRef",
   "useImperativeHandle", "useLayoutEffect", "useDebugValue", "useTransition",
   "useDeferredValue", "useId", "useSyncExternalStore", "useInsertionEffect"}

BodyTypes == {"Module", "FunctionDef", "ClassDef"}

BodyStart(node) == IF node.type = "FunctionDef" THEN 2 ELSE 1

\* body[0] is an ast.Expr whose value is an ast.Constant holding a str
IsDocstring(stmt) ==
  /\ stmt.type = "Expr"
  /\ stmt.children # <<>>
  /\ stmt.children[1].type = "Constant"
  /\ stmt.children[1].value \in StrTexts

\* _strip_docstrings(body)
strip_docstrings(body) ==
  IF body # <<>> /\ IsDocstring(Head(body)) THEN Tail(body) ELSE body

\* The children a visit_Module, visit_FunctionDef or visit_ClassDef leaves
\* to generic_visit.
Stripped(node) ==
  IF node.type \in BodyTypes
  THEN LET k == BodyStart(node)
       IN SubSeq(node.children, 1, k - 1) \o
          strip_docstrings(SubSeq(node.children, k, Len(node.children)))
  ELSE node.children

ArgNames(arguments) == [i \in DOMAIN arguments.children |-> arguments.children[i].name]

\* The names handed to _canonical_var and to _canonical_func, in the order
\* of the visit.
RECURSIVE VisitedVars(_)
RECURSIVE VisitedVarsAll(_)
VisitedVarsAll(nodes) ==
  IF nodes = <<>> THEN <<>> ELSE VisitedVars(Head(nodes)) \o VisitedVarsAll(Tail(nodes))

VisitedVars(node) ==
  IF node.type = "Name" THEN <<node.name>>
  ELSE (IF node.type = "FunctionDef" THEN ArgNames(node.children[1]) ELSE <<>>)
       \o VisitedVarsAll(Stripped(node))

RECURSIVE VisitedFuncs(_)
RECURSIVE VisitedFuncsAll(_)
VisitedFuncsAll(nodes) ==
  IF nodes = <<>> THEN <<>> ELSE VisitedFuncs(Head(nodes)) \o VisitedFuncsAll(Tail(nodes))

VisitedFuncs(node) ==
  (IF node.type = "FunctionDef" THEN <<node.name>> ELSE <<>>)
  \o VisitedFuncsAll(Stripped(node))

\* _NameCanonicalizer.visit with the finished var_map and func_map (their
\* keys in insertion order): visit_Module, visit_FunctionDef, visit_ClassDef,
\* visit_Name, visit_Constant and generic_visit.
RECURSIVE Canonicalize(_, _, _)
Canonicalize(node, var_map, func_map) ==
  LET kids == Stripped(node)
      renamed == [i \in DOMAIN kids |->
                    IF node.type = "arguments"
                    THEN [kids[i] EXCEPT !.name = CanonVars[Position(var_map, @)]]
                    ELSE Canonicalize(kids[i], var_map, func_map)]
  IN [node EXCEPT
        !.children = renamed,
        !.name = IF node.type = "Name" THEN CanonVars[Position(var_map, @)]
                 ELSE IF node.type = "FunctionDef" THEN CanonFuncs[Position(func_map, @)]
                 ELSE @,
        !.value = IF node.type = "Constant" THEN "CONST" ELSE @]

\* normalize_ast(tree) on a syntax tree.
NameCanonicalizer(tree) ==
  Canonicalize(tree, FirstSeen(VisitedVars(tree), <<>>), FirstSeen(VisitedFuncs(tree), <<>>))

\* _node_to_ir(node): the Unified IR of a tree of named Tree-sitter nodes.
RECURSIVE node_to_ir(_)
node_to_ir(node) ==
  [type |-> TsToUnified(node.type),
   children |-> [i \in DOMAIN node.children |-> node_to_ir(node.children[i])],
   start_line |-> node.start_line,
   end_line |-> node.end_line,
   name |-> IF node.type = "identifier" THEN node.name ELSE "",
   value |-> IF node.type \in {"string", "number", "true", "false"} THEN node.value ELSE ""]

\* The names handed to _canonical_var by UnifiedNormalizer.normalize, in
\* the order of the walk: the Unified IR of the model carries a name on
\* identifier nodes only.
RECURSIVE IrNames(_)
RECURSIVE IrNamesAll(_)
IrNamesAll(nodes) ==
  IF nodes = <<>> THEN <<>> ELSE IrNames(Head(nodes)) \o IrNamesAll(Tail(nodes))

\* ir["children"] = non_attrs + attrs, the attributes sorted by their name
\* (a.get("name", ""), which no JSXAttribute node carries).
SortedAttributes(ir) ==
  IF ir.type \in {"JSXOpeningElement", "JSXSelfClosingElement"}
  THEN LET attrs == SelectSeq(ir.children, LAMBDA c : c.type = "JSXAttribute")
           non_attrs == SelectSeq(ir.children, LAMBDA c : c.type # "JSXAttribute")
       IN non_attrs \o
          StableSortByKey(attrs, [i \in DOMAIN attrs |-> IF attrs[i].name = "" THEN 0 ELSE 1])
  ELSE ir.children

IrNames(ir) ==
  (IF ir.name # "" THEN <<ir.name>> ELSE <<>>) \o IrNamesAll(SortedAttributes(ir))

\* Whether normalize, on the node ir, rewrites the name of the first child:
\* a CallExpression whose first child carries a name.
CallsByName(ir) ==
  ir.type = "CallExpression" /\ ir.children # <<>> /\ ir.children[1].name # ""

\* The names of the call targets in the order normalize meets the calls: a
\* node before its children.
RECURSIVE Callees(_)
RECURSIVE CalleesAll(_)
CalleesAll(nodes) ==
  IF nodes = <<>> THEN <<>> ELSE Callees(Head(nodes)) \o CalleesAll(Tail(nodes))

Callees(ir) ==
  (IF CallsByName(ir) THEN <<ir.children[1].name>> ELSE <<>>)
  \o CalleesAll(SortedAttributes(ir))

\* The CallExpression branch of normalize with the finished hook and
\* function maps (neither depends on the variable map): the name of the
\* first child becomes hook_k or func_k, before the child is visited.
RECURSIVE RewriteCallees(_, _, _)
RewriteCallees(ir, func_map, hook_map) ==
  LET kids == [i \in DOMAIN ir.children |->
                 RewriteCallees(ir.children[i], func_map, hook_map)]
      fname == kids[1].name
  IN [ir EXCEPT
        !.children =
          IF CallsByName(ir)
          THEN [kids EXCEPT
                  ![1].name = IF fname \in REACT_HOOKS
                              THEN CanonHooks[Position(hook_map, fname)]
                              ELSE CanonFuncs[Position(func_map, fname)]]
          ELSE kids]

\* The branch "variable identifiers", the literals, the arrow functions and
\* the recursion of normalize, with the finished var_map: every node that
\* carries a name when it is visited gets var_k for it.
RECURSIVE Normalize(_, _)
Normalize(ir, var_map) ==
  LET kids == SortedAttributes(ir)
  IN [ir EXCEPT
        !.name = IF @ # "" THEN CanonVars[Position(var_map, @)] ELSE @,
        !.value = IF @ # "" THEN "CONST" ELSE @,
        !.type = IF @ = "ArrowFunction" THEN "FunctionDeclaration" ELSE @,
        !.children = [i \in DOMAIN kids |-> Normalize(kids[i], var_map)]]

\* normalize_ir(ir): a call target is renamed when its CallExpression is
\* visited and again, as any node with a name, when it is visited itself.
normalize_ir(ir) ==
  LET callees == Callees(ir)
      hook_map == FirstSeen(SelectSeq(callees, LAMBDA n : n \in REACT_HOOKS), <<>>)
      func_map == FirstSeen(SelectSeq(callees, LAMBDA n : n \notin REACT_HOOKS), <<>>)
      called == RewriteCallees(ir, func_map, hook_map)
  IN Normalize(called, FirstSeen(IrNames(called), <<>>))

\* _process_source: the fingerprints of a parsed file of either family.
Fingerprints(lang, tree) ==
  IF lang = "python" THEN subtree_hashes(NameCanonicalizer(tree))
  ELSE hash_ir(normalize_ir(node_to_ir(tree)))

(***************************************************************************)
(* normalize_ir on files made of calls                                     *)
(***************************************************************************)
MaxCalls == 2
MaxStored == 2

\* callee(arg);  on line n
JsCall(callee, arg, n) ==
  Tree("expression_statement",
       <<Tree("call_expression",
              <<Ident("identifier", callee, <<>>, n, n),
                Tree("arguments", <<Ident("identifier", arg, <<>>, n, n)>>, n, n)>>,
              n, n)>>,
       n, n)

\* name;  on line n
JsName(name, n) ==
  Tree("expression_statement", <<Ident("identifier", name, <<>>, n, n)>>, n, n)

\* The statements of line n: calls of two hooks and of two other functions,
\* and bare names, one of them spelt like a canonical name.
CallStatements(n) ==
  {JsCall(callee, arg, n) : callee \in {"useState", "useEffect", "foo", "bar"},
                            arg \in {"s", "foo"}}
  \cup {JsName(name, n) : name \in {"foo", "func_1"}}

CallFiles ==
  UNION {{Tree("program", body, 1, n + 1) :
            body \in {b \in [1 .. n -> UNION {CallStatements(k) : k \in 1 .. n}] :
                        \A k \in 1 .. n : b[k] \in CallStatements(k)}} :
         n \in 0 .. MaxCalls}

InitCalls ==
  /\ env = DefaultWeights
  /\ pc = "calls"
  /\ kind = "none"
  /\ groups = <<>>
  /\ details = <<>>
  /\ response = NoResponse
  /\ replay = NoResponse
  /\ analysis_store = <<>>
  /\ returned = {}
  /\ answer = NoAnswer

\* _process_source on a file of the curly-brace family, up to normalize_ir.
NormalizeCalls(tree) ==
  /\ pc = "calls"
  /\ details = <<>>
  /\ LET ir == node_to_ir(tree)
     IN details' = <<[ir |-> ir, normalized_ir |-> normalize_ir(ir)]>>
  /\ UNCHANGED <<env, pc, kind, groups, response, replay,
                 analysis_store, returned, answer>>

NextCalls ==
  /\ details = <<>>
  /\ \E tree \in CallFiles : NormalizeCalls(tree)

SpecCalls == InitCalls /\ [][NextCalls]_vars

(***************************************************************************)
(* Source files as syntax trees, and their variants.                       *)
(***************************************************************************)
\* def f(x):
\*     'doc'
\*     return x * 2
PyDouble ==
  Tree("Module",
       <<Ident("FunctionDef", "f",
               <<Tree("arguments", <<Ident("arg", "x", <<>>, 1, 1)>>, 0, 0),
                 Tree("Expr", <<Literal("Constant", "'doc'", <<>>, 2, 2)>>, 2, 2),
                 Tree("Return",
                      <<Tree("BinOp",
                             <<Ident("Name", "x", <<Tree("Load", <<>>, 0, 0)>>, 3, 3),
                               Tree("Mult", <<>>, 0, 0),
                               Literal("Constant", "2", <<>>, 3, 3)>>,
                             3, 3)>>,
                      3, 3)>>,
               1, 3)>>,
       0, 0)

\* 'doc'
\* class C:
\*     's'
\*     y = 1
PyClass ==
  Tree("Module",
       <<Tree("Expr", <<Literal("Constant", "'doc'", <<>>, 1, 1)>>, 1, 1),
         Ident("ClassDef", "C",
               <<Tree("Expr", <<Literal("Constant", "'s'", <<>>, 3, 3)>>, 3, 3),
                 Tree("Assign",
                      <<Ident("Name", "y", <<Tree("Store", <<>>, 0, 0)>>, 4, 4),
                        Literal("Constant", "1", <<>>, 4, 4)>>,
                      4, 4)>>,
               2, 4)>>,
       0, 0)

\* x = True
\* y = True
PyFlags ==
  Tree("Module",
       <<Tree("Assign",
              <<Ident("Name", "x", <<Tree("Store", <<>>, 0, 0)>>, 1, 1),
                Literal("Constant", "True", <<>>, 1, 1)>>,
              1, 1),
         Tree("Assign",
              <<Ident("Name", "y", <<Tree("Store", <<>>, 0, 0)>>, 2, 2),
                Literal("Constant", "True", <<>>, 2, 2)>>,
              2, 2)>>,
       0, 0)

JsString(text, line) ==
  Literal("string", text, <<Tree("string_fragment", <<>>, line, line)>>, line, line)

\* function f(x) {
\*   "doc";
\*   return x * 2;
\* }
JsDouble ==
  Tree("program",
       <<Tree("function_declaration",
              <<Ident("identifier", "f", <<>>, 1, 1),
                Tree("formal_parameters", <<Ident("identifier", "x", <<>>, 1, 1)>>, 1, 1),
                Tree("statement_block",
                     <<Tree("expression_statement", <<JsString("\"doc\"", 2)>>, 2, 2),
                       Tree("return_statement",
                            <<Tree("binary_expression",
                                   <<Ident("identifier", "x", <<>>, 3, 3),
                                     Literal("number", "2", <<>>, 3, 3)>>,
                                   3, 3)>>,
                            3, 3)>>,
                     1, 4)>>,
              1, 4)>>,
       1, 5)

\* "doc";
\* (x) => {
\*   return true;
\* };
JsArrow ==
  Tree("program",
       <<Tree("expression_statement", <<JsString("\"doc\"", 1)>>, 1, 1),
         Tree("expression_statement",
              <<Tree("arrow_function",
                     <<Tree("formal_parameters", <<Ident("identifier", "x", <<>>, 2, 2)>>, 2, 2),
                       Tree("statement_block",
                            <<Tree("return_statement",
                                   <<Literal("true", "true", <<>>, 3, 3)>>, 3, 3)>>,
                            2, 4)>>,
                     2, 4)>>,
              2, 4)>>,
       1, 5)

\* <C a="s" b={x} c />;
JsMarkup ==
  Tree("program",
       <<Tree("expression_statement",
              <<Tree("jsx_self_closing_element",
                     <<Ident("identifier", "C", <<>>, 1, 1),
                       Tree("jsx_attribute",
                            <<Tree("property_identifier", <<>>, 1, 1), JsString("\"s\"", 1)>>,
                            1, 1),
                       Tree("jsx_attribute",
                            <<Tree("property_identifier", <<>>, 1, 1),
                              Tree("jsx_expression",
                                   <<Ident("identifier", "x", <<>>, 1, 1)>>, 1, 1)>>,
                            1, 1),
                       Tree("jsx_attribute",
                            <<Tree("property_identifier", <<>>, 1, 1)>>, 1, 1)>>,
                     1, 1)>>,
              1, 1)>>,
       1, 2)

SourceFiles ==
  {[lang |-> "python", tree |-> t] : t \in {PyDouble, PyClass, PyFlags}} \cup
  {[lang |-> "javascript", tree |-> t] : t \in {JsDouble, JsArrow, JsMarkup}}

\* The identifiers a renaming may use.
AllNames == <<"f", "x", "y", "C", "g", "z">>
NamePool == {AllNames[i] : i \in 1 .. MaxNames}

\* The bijective renamings of the identifiers.
Renamings ==
  {[i \in DOMAIN AllNames |-> IF i <= MaxNames THEN p[i] ELSE AllNames[i]] :
     p \in Orderings(NamePool)}

RenameOf(sigma, name) == sigma[Position(AllNames, name)]

\* The literals of a family and their kinds.
LiteralTexts(lang) ==
  IF lang = "python" THEN {"1", "2", "'doc'", "'s'", "True", "False"}
  ELSE {"1", "2", "\"doc\"", "\"s\"", "true", "false"}

LiteralKind(text) ==
  IF text \in StrTexts THEN "string"
  ELSE IF text \in {"1", "2"} THEN "number"
  ELSE "boolean"

\* The replacements of literals by literals of the same kind.
LiteralMaps(lang) ==
  {m \in [LiteralTexts(lang) -> LiteralTexts(lang)] :
     \A t \in LiteralTexts(lang) : LiteralKind(m[t]) = LiteralKind(t)}

\* The source with its identifiers renamed by sigma and its literals
\* replaced by lit, as the parser of its family reads it: a boolean literal
\* of the curly-brace family is a node whose type is its text.
RECURSIVE Rewritten(_, _, _)
Rewritten(node, sigma, lit) ==
  [node EXCEPT
     !.name = IF @ # "" THEN RenameOf(sigma, @) ELSE @,
     !.value = IF @ # "" THEN lit[@] ELSE @,
     !.type = IF @ \in {"true", "false"} THEN lit[node.value] ELSE @,
     !.children = [i \in DOMAIN @ |-> Rewritten(@[i], sigma, lit)]]

\* The trees that differ from a tree by the order of the children of its
\* nodes.
RECURSIVE Shuffles(_)
RECURSIVE ShuffledLists(_)
ShuffledLists(nodes) ==
  IF nodes = <<>> THEN {<<>>}
  ELSE {<<h>> \o t : h \in Shuffles(Head(nodes)), t \in ShuffledLists(Tail(nodes))}

Shuffles(node) ==
  {[node EXCEPT !.children = [i \in DOMAIN kids |-> kids[perm[i]]]] :
     kids \in ShuffledLists(node.children),
     perm \in Orderings(DOMAIN node.children)}

\* A documentation string: a string-literal expression statement.
IsDocStatement(lang, stmt) ==
  IF lang = "python" THEN IsDocstring(stmt)
  ELSE /\ stmt.type = "expression_statement"
       /\ stmt.children # <<>>
       /\ stmt.children[1].type = "string"

\* A module, function or class body, and where its statements start.
IsBody(lang, node, parent_type) ==
  IF lang = "python" THEN node.type \in BodyTypes
  ELSE \/ node.type = "program"
       \/ /\ node.type = "statement_block"
          /\ parent_type \in {"function_declaration", "arrow_function"}

\* The otherwise identical files without one documentation string.
RECURSIVE Undocumented(_, _, _)
Undocumented(lang, node, parent_type) ==
  LET k == IF lang = "python" THEN BodyStart(node) ELSE 1
      kids == node.children
  IN (IF /\ IsBody(lang, node, parent_type)
         /\ Len(kids) > k
         /\ IsDocStatement(lang, kids[k])
      THEN {[node EXCEPT !.children = SubSeq(kids, 1, k - 1) \o SubSeq(kids, k + 1, Len(kids))]}
      ELSE {})
     \cup
     UNION {{[node EXCEPT !.children[i] = c] :
               c \in Undocumented(lang, kids[i], node.type)} : i \in DOMAIN kids}

\* The tree the fingerprinter of a family walks, before the curly-brace
\* family's normalisation.
Prepared(lang, tree) ==
  IF lang = "python" THEN NameCanonicalizer(tree) ELSE node_to_ir(tree)

Hashed(lang, prepared) ==
  IF lang = "python" THEN prepared ELSE normalize_ir(prepared)

TrivialTypes(lang) == IF lang = "python" THEN TRIVIAL_NODES ELSE TRIVIAL_IR_TYPES

(***************************************************************************)
(* The fingerprints of a file and of a variant of it.                      *)
(***************************************************************************)
InitTrees ==
  /\ env = DefaultWeights
  /\ pc = "trees"
  /\ kind = "none"
  /\ groups = <<>>
  /\ details = <<>>
  /\ response = NoResponse
  /\ replay = NoResponse
  /\ analysis_store = <<>>
  /\ returned = {}
  /\ answer = NoAnswer

\* A file's fingerprints, with the tree the fingerprinter walked.
HashTree(file) ==
  /\ pc = "trees"
  /\ details = <<>>
  /\ LET walked == Hashed(file.lang, Prepared(file.lang, file.tree))
     IN details' = <<[op |-> "hash", lang |-> file.lang, tree |-> walked,
                      analysis |-> Fingerprints(file.lang, file.tree)]>>
  /\ UNCHANGED <<env, pc, kind, groups, response, replay,
               analysis_store, returned, answer>>

\* The fingerprints of a file and of the file with other identifiers and
\* literals.
HashRewritten(file, sigma, lit) ==
  /\ pc = "trees"
  /\ details = <<>>
  /\ LET variant == Rewritten(file.tree, sigma, lit)
     IN details' = <<[op |-> "rewrite", lang |-> file.lang,
                      tree |-> file.tree, variant |-> variant,
                      analysis_a |-> Fingerprints(file.lang, file.tree),
                      analysis_b |-> Fingerprints(file.lang, variant)]>>
  /\ UNCHANGED <<env, pc, kind, groups, response, replay,
               analysis_store, returned, answer>>

\* The fingerprints of a tree and of the tree with children in another
\* order, and the digest of a node of another type over the root's
\* children.
HashShuffled(file, shuffled, node_type) ==
  /\ pc = "trees"
  /\ details = <<>>
  /\ LET trivial == TrivialTypes(file.lang)
         tree == Prepared(file.lang, file.tree)
         walked_a == Hashed(file.lang, tree)
         walked_b == Hashed(file.lang, shuffled)
         root == Collect(walked_a, trivial).h
     IN details' = <<[op |-> "shuffle", lang |-> file.lang,
                      tree |-> tree, variant |-> shuffled,
                      root_a |-> root,
                      root_b |-> Collect(walked_b, trivial).h,
                      node_type |-> node_type,
                      retyped |-> Collect([walked_a EXCEPT !.type = node_type], trivial).h,
                      analysis_a |-> generate_subtree_hashes(Collect(walked_a, trivial).infos),
                      analysis_b |-> generate_subtree_hashes(Collect(walked_b, trivial).infos)]>>
  /\ UNCHANGED <<env, pc, kind, groups, response, replay,
               analysis_store, returned, answer>>

\* The fingerprints of a file and of the file without one of its
\* documentation strings.
HashUndocumented(file, variant) ==
  /\ pc = "trees"
  /\ details = <<>>
  /\ details' = <<[op |-> "undocument", lang |-> file.lang,
                   tree |-> file.tree, variant |-> variant,
                   analysis_a |-> Fingerprints(file.lang, file.tree),
                   analysis_b |-> Fingerprints(file.lang, variant)]>>
  /\ UNCHANGED <<env, pc, kind, groups, response, replay,
               analysis_store, returned, answer>>

NextTrees ==
  /\ details = <<>>
  /\ \E file \in SourceFiles :
       \/ HashTree(file)
       \/ \E sigma \in Renamings : \E lit \in LiteralMaps(file.lang) :
            HashRewritten(file, sigma, lit)
       \/ \E shuffled \in Shuffles(Prepared(file.lang, file.tree)) :
            \E node_type \in {"Module", "Block"} :
              HashShuffled(file, shuffled, node_type)
       \/ \E variant \in Undocumented(file.lang, file.tree, "") :
            HashUndocumented(file, variant)

SpecTrees == InitTrees /\ [][NextTrees]_vars

(***************************************************************************)
(* llm_judge.py and the judge hook of the comparison loops.                *)
(*                                                                         *)
(* What the judge does on one call is an input: "absent" (no model: no API *)
(* key or a failed initialisation), "raises" (the API call or the parsing  *)
(* of its answer raises), or the classification of the answer, "UNKNOWN"   *)
(* for an answer without a valid one.                                      *)
(***************************************************************************)
JudgeOutcomes ==
  {"absent", "raises", "STANDARD_ALGORITHM", "TEMPLATE_OR_BOILERPLATE", "LIKELY_COPY",
   "UNKNOWN"}

\* None, for a verdict and for a refined verdict.
NoVerdict == [classification |-> "none", error |-> FALSE]
NoRefined == [refined_classification |-> "none", refined_risk_level |-> "none",
              original_structural_score |-> 0]

\* A variant that asks the judge about every emitted pair.
should_invoke_llm_mut(similarity_score) == TRUE

should_invoke_llm(similarity_score) == similarity_score >= LlmThreshold

\* evaluate_pair(code_a, code_b, scores): None without a model, a verdict
\* with error set when the call raises, the parsed verdict otherwise.
evaluate_pair(judge) ==
  IF judge = "absent" THEN NoVerdict
  ELSE IF judge = "raises" THEN [classification |-> "UNKNOWN", error |-> TRUE]
  ELSE [classification |-> judge, error |-> FALSE]

compute_refined_verdict(original_score, verdict) ==
  [refined_classification |-> verdict.classification,
   refined_risk_level |->
     IF verdict.classification = "LIKELY_COPY"
     THEN (IF original_score >= CriticalScore THEN "CRITICAL"
           ELSE IF original_score >= HighScore THEN "HIGH"
           ELSE "MEDIUM")
     ELSE IF verdict.classification = "TEMPLATE_OR_BOILERPLATE" THEN "LOW"
     ELSE IF verdict.classification = "STANDARD_ALGORITHM" THEN "NONE"
     ELSE "LOW",
   original_structural_score |-> Round4(original_score)]

\* _maybe_run_llm: whether evaluate_pair was called, and the two records to
\* attach (present FALSE for None).
maybe_run_llm(final_score, judge) ==
  IF ~should_invoke_llm(final_score)
  THEN [called |-> FALSE, present |-> FALSE,
        llm_verdict |-> NoVerdict, refined_verdict |-> NoRefined]
  ELSE LET verdict == evaluate_pair(judge)
       IN IF verdict = NoVerdict
          THEN [called |-> TRUE, present |-> FALSE,
                llm_verdict |-> NoVerdict, refined_verdict |-> NoRefined]
          ELSE [called |-> TRUE, present |-> TRUE,
                llm_verdict |-> verdict,
                refined_verdict |-> compute_refined_verdict(final_score, verdict)]

\* The body of the comparison loops for one pair, judge included: a key
\* that is not set holds NoVerdict or NoRefined.
JudgedIteration(d, threshold, seed, judge) ==
  IF Skipped(d, threshold)
  THEN [skipped |-> TRUE, called |-> FALSE, judge |-> judge, final |-> d.final,
        file1 |-> d.file1, file2 |-> d.file2]
  ELSE LET plain == pair_result(d, seed)
           llm_data == maybe_run_llm(d.final, judge)
       IN [skipped |-> FALSE, called |-> llm_data.called, judge |-> judge,
           final |-> d.final, file1 |-> d.file1, file2 |-> d.file2,
           pair_result |->
             [file1 |-> plain.file1, file2 |-> plain.file2,
              similarity_score |-> plain.similarity_score,
              matching_regions |-> plain.matching_regions,
              llm_verdict |-> IF llm_data.present THEN llm_data.llm_verdict ELSE NoVerdict,
              refined_verdict |->
                IF llm_data.present THEN llm_data.refined_verdict ELSE NoRefined]]

JudgedLoop(loop, threshold, seed, oracle) ==
  [k \in DOMAIN loop |-> JudgedIteration(loop[k], threshold, seed, oracle[k])]

\* compute_similarity and compute_cross_similarity with the judge answering
\* the k-th comparison as oracle[k].
JudgedPairs(loop, threshold, seed, oracle) ==
  LET kept == SelectSeq(JudgedLoop(loop, threshold, seed, oracle), LAMBDA it : ~it.skipped)
  IN SortByScoreDesc([k \in DOMAIN kept |-> kept[k].pair_result])

\* The files of a request, as one upload list or as two archives.
RECURSIVE GroupOfFiles(_, _, _, _)
GroupOfFiles(label, srcs, from, to) ==
  IF from > to THEN NewGroup(label)
  ELSE LET g == GroupOfFiles(label, srcs, from, to - 1)
           filename == Prefixed(label, to, srcs[to].lang)
       IN [g EXCEPT !.files = Append(@, filename),
                    !.analyses = DictSet(@, filename, FileAnalysisOf(filename, srcs[to])),
                    !.received = @ + 1]

JudgedRequests ==
  UNION {
    {[kind |-> "multi_file", groups |-> <<GroupOfFiles(0, srcs, 1, n)>>] :
       srcs \in [1 .. n -> Sources]}
    \cup
    {[kind |-> "zip_cross",
      groups |-> <<GroupOfFiles(1, srcs, 1, m[1]), GroupOfFiles(2, srcs, m[1] + 1, n)>>] :
       srcs \in [1 .. n -> Sources], m \in {<<i>> : i \in 1 .. n - 1}}
    : n \in 2 .. MaxJudged}
  \cup
  {[kind |-> "pair", groups |-> <<GroupOfFiles(0, srcs, 1, 2)>>] : srcs \in [1 .. 2 -> Sources]}

InitJudge ==
  /\ env = DefaultWeights
  /\ pc = "judge"
  /\ kind = "none"
  /\ groups = <<>>
  /\ details = <<>>
  /\ response = NoResponse
  /\ replay = NoResponse
  /\ analysis_store = <<>>
  /\ returned = {}
  /\ answer = NoAnswer

\* The comparator of a request without a judge and with one.
Judge(request, seed, oracle) ==
  /\ pc = "judge"
  /\ details = <<>>
  /\ LET loop == Comparisons(request.kind, request.groups, env)
         threshold == Threshold(request.kind)
     IN /\ DOMAIN oracle = DOMAIN loop
        /\ \A k \in DOMAIN loop :
             JudgedLoop(loop, threshold, seed, oracle)[k].called \/ oracle[k] = "absent"
        /\ details' = <<[kind |-> request.kind,
                         threshold |-> threshold,
                         loop |-> JudgedLoop(loop, threshold, seed, oracle),
                         plain |-> SimilarityPairs(request.kind, request.groups, env, seed),
                         judged |-> JudgedPairs(loop, threshold, seed, oracle)]>>
  /\ UNCHANGED <<env, pc, kind, groups, response, replay,
               analysis_store, returned, answer>>

Oracles == UNION {[1 .. n -> JudgeOutcomes] : n \in 0 .. (MaxJudged * (MaxJudged - 1)) \div 2}

NextJudge ==
  /\ details = <<>>
  /\ \E request \in JudgedRequests, seed \in IterOrders, oracle \in Oracles :
       Judge(request, seed, oracle)

SpecJudge == InitJudge /\ [][NextJudge]_vars

(***************************************************************************)
(* analysis_orchestrator.py: the complete response payload                 *)
(*                                                                         *)
(* The timestamp of metadata and the metrics dictionary of each entry of   *)
(* metrics are left out, and so are the extra summary keys of the          *)
(* repository and spreadsheet handlers, none of which is one of the four   *)
(* keys computed here.                                                     *)
(***************************************************************************)
\* "llm_verdict" in p, "refined_verdict" in p
HasVerdict(p) == "llm_verdict" \in DOMAIN p /\ p.llm_verdict # NoVerdict
HasRefined(p) == "refined_verdict" \in DOMAIN p /\ p.refined_verdict # NoRefined

\* collections.Counter(items), and counter.get(c, 0)
Counter(items) ==
  [c \in Range(items) |-> Cardinality({k \in DOMAIN items : items[k] = c})]

CounterGet(counter, c) == IF c \in DOMAIN counter THEN counter[c] ELSE 0

\* None, for the summary of the verdicts.
NoLlmSummary == [pairs_evaluated_by_llm |-> 0]

\* A variant that takes every pair for an evaluated one.
build_llm_summary_mut(similarity_pairs) ==
  LET evaluated == similarity_pairs
      classifications ==
        Counter([k \in DOMAIN evaluated |->
                   IF HasVerdict(evaluated[k])
                   THEN evaluated[k].llm_verdict.classification ELSE "none"])
  IN [pairs_evaluated_by_llm |-> Len(evaluated),
      classification_breakdown |-> classifications,
      risk_level_breakdown |-> <<>>,
      likely_copy_count |-> CounterGet(classifications, "LIKELY_COPY"),
      standard_algorithm_count |-> CounterGet(classifications, "STANDARD_ALGORITHM"),
      template_count |-> CounterGet(classifications, "TEMPLATE_OR_BOILERPLATE")]

build_llm_summary(similarity_pairs) ==
  LET evaluated == SelectSeq(similarity_pairs, HasVerdict)
      refined == SelectSeq(evaluated, HasRefined)
      classifications ==
        Counter([k \in DOMAIN evaluated |-> evaluated[k].llm_verdict.classification])
      risk_levels ==
        Counter([k \in DOMAIN refined |-> refined[k].refined_verdict.refined_risk_level])
  IN IF evaluated = <<>> THEN NoLlmSummary
     ELSE [pairs_evaluated_by_llm |-> Len(evaluated),
           classification_breakdown |-> classifications,
           risk_level_breakdown |-> risk_levels,
           likely_copy_count |-> CounterGet(classifications, "LIKELY_COPY"),
           standard_algorithm_count |-> CounterGet(classifications, "STANDARD_ALGORITHM"),
           template_count |-> CounterGet(classifications, "TEMPLATE_OR_BOILERPLATE")]

\* One entry per file name, in the order of filenames.
file_metrics(analyses, filenames) ==
  [k \in DOMAIN filenames |->
     LET fa == Lookup(analyses, filenames[k])
     IN [file |-> filenames[k],
         total_subtrees |-> Len(fa.subtree_infos),
         unique_subtrees |-> Cardinality(fa.hash_set)]]

\* max(p["similarity_score"] for p in similarity_pairs), 0.0 for no pair
highest_score(similarity_pairs) ==
  LET scores == {similarity_pairs[k].similarity_score : k \in DOMAIN similarity_pairs}
  IN IF similarity_pairs = <<>> THEN 0
     ELSE CHOOSE s \in scores : \A t \in scores : t <= s

\* A variant that takes the score of the last emitted pair for the highest.
Summary_mut(analyses, similarity_pairs, clusters) ==
  [total_files |-> Len(analyses),
   suspicious_pairs_count |-> Len(similarity_pairs),
   highest_similarity |->
     IF similarity_pairs = <<>> THEN 0
     ELSE Round4(similarity_pairs[Len(similarity_pairs)].similarity_score),
   cluster_count |-> Len(clusters)]

Summary(analyses, similarity_pairs, clusters) ==
  [total_files |-> Len(analyses),
   suspicious_pairs_count |-> Len(similarity_pairs),
   highest_similarity |-> Round4(highest_score(similarity_pairs)),
   cluster_count |-> Len(clusters)]

\* The payload of run_unified_analysis; the keys llm_summary and errors are
\* set only for a summary that is not None and a list that is not empty.
unified_response(analyses, errors, analysis_type, similarity_pairs, analysis_id) ==
  LET body == run_unified_analysis(analyses, similarity_pairs)
      llm_summary == build_llm_summary(similarity_pairs)
      payload ==
        [analysis_id |-> analysis_id,
         summary |-> Summary(analyses, similarity_pairs, body.clusters),
         files |-> body.files,
         similarity |-> [pairs |-> body.pairs, matrix |-> body.matrix,
                         graph |-> body.graph, clusters |-> body.clusters],
         metrics |-> file_metrics(analyses, body.files),
         metadata |-> [analysis_type |-> analysis_type,
                       llm_enabled |-> llm_summary # NoLlmSummary]]
  IN payload
     @@ (IF llm_summary # NoLlmSummary THEN [llm_summary |-> llm_summary] ELSE <<>>)
     @@ (IF errors # <<>> THEN [errors |-> errors] ELSE <<>>)

(***************************************************************************)
(* run_unified_analysis on its own: any files, any emitted pairs with the  *)
(* judge's answers, any errors                                             *)
(***************************************************************************)
\* A final score below the judge's threshold, one that rounds to the
\* cluster threshold, and a high one.
PayloadFinals == {612345, 749960, 951234}

PayloadJudges == {"absent", "raises", "LIKELY_COPY", "STANDARD_ALGORITHM"}

PayloadErrors == {<<>>, <<[file |-> 92, error |-> "unsupported"]>>}

\* The record the comparison loops emit for a pair with this final score.
EmittedPair(file1, file2, final, judge) ==
  LET llm_data == maybe_run_llm(final, judge)
      plain == [file1 |-> file1, file2 |-> file2,
                similarity_score |-> Round4(final), matching_regions |-> <<>>]
  IN IF llm_data.present
     THEN plain @@ [llm_verdict |-> llm_data.llm_verdict,
                    refined_verdict |-> llm_data.refined_verdict]
     ELSE plain

InitPayload ==
  /\ env = DefaultWeights
  /\ pc = "payload"
  /\ kind = "none"
  /\ groups = <<>>
  /\ \E n \in 2 .. MaxFiles, src \in Sources, errors \in PayloadErrors :
       LET analyses == GroupOfFiles(0, [i \in 1 .. n |-> src], 1, n).analyses
       IN details = <<[analyses |-> analyses, errors |-> errors, similarity_pairs |-> <<>>,
                       response |-> unified_response(analyses, errors, "multi_file", <<>>, 1)]>>
  /\ response = NoResponse
  /\ replay = NoResponse
  /\ analysis_store = <<>>
  /\ returned = {}
  /\ answer = NoAnswer

\* run_unified_analysis for a comparator that emits one more pair, of two
\* files no emitted pair has compared.
EmitPair(file1, file2, final, judge) ==
  /\ pc = "payload"
  /\ LET d == details[1]
         similarity_pairs == Append(d.similarity_pairs, EmittedPair(file1, file2, final, judge))
     IN /\ Len(d.similarity_pairs) < MaxPairs
        /\ {file1, file2} \subseteq Keys(d.analyses)
        /\ file1 < file2
        /\ \A k \in DOMAIN d.similarity_pairs :
             <<d.similarity_pairs[k].file1, d.similarity_pairs[k].file2>> # <<file1, file2>>
        /\ details' = <<[d EXCEPT
                           !.similarity_pairs = similarity_pairs,
                           !.response = unified_response(d.analyses, d.errors, "multi_file",
                                                         similarity_pairs, 1)]>>
  /\ UNCHANGED <<env, pc, kind, groups, response, replay,
               analysis_store, returned, answer>>

PayloadNames == {Prefixed(0, base, lang) : base \in 1 .. MaxFiles, lang \in {"py", "js"}}

NextPayload ==
  \E file1 \in PayloadNames, file2 \in PayloadNames,
     final \in PayloadFinals, judge \in PayloadJudges :
    EmitPair(file1, file2, final, judge)

SpecPayload == InitPayload /\ [][NextPayload]_vars

(***************************************************************************)
(* api/routes/analyze.py: the analysis store and the read endpoints        *)
(*                                                                         *)
(* One process serves POST /analyze-pair requests and, at any point of     *)
(* them, GET requests for the graph, the matrix and the clusters of an     *)
(* analysis.  The handlers keep what they compute in locals until          *)
(* _store_and_return, which no await separates from run_unified_analysis.  *)
(***************************************************************************)
\* The ids uuid4 can draw; 0 is the empty string.
AnalysisIds == 1 .. MaxStored

\* A variant that can draw an id a second time.
FreshIds_mut(store) == AnalysisIds

\* str(uuid.uuid4()): an id no earlier call has returned.
FreshIds(store) == AnalysisIds \ Keys(store)

\* errors, over the archives or repositories of the request.
RECURSIVE RequestErrors(_)
RequestErrors(gs) ==
  IF gs = <<>> THEN <<>>
  ELSE RequestErrors(SubSeq(gs, 1, Len(gs) - 1)) \o gs[Len(gs)].errors

\* _analysis_store[aid] = result
store_and_return(store, result) == DictSet(store, result.analysis_id, result)

\* The rest of the handler: the comparator, run_unified_analysis and
\* _store_and_return.  returned collects the responses sent to clients.
AnalyzeAndStore(seed, aid) ==
  /\ pc = "ingest"
  /\ Complete
  /\ Len(analysis_store) < MaxStored
  /\ aid \in FreshIds(analysis_store)
  /\ LET result == unified_response(AllAnalyses(groups), RequestErrors(groups), kind,
                                    SimilarityPairs(kind, groups, env, seed), aid)
     IN /\ analysis_store' = store_and_return(analysis_store, result)
        /\ returned' = returned \cup {result}
  /\ response' = Respond(kind, groups, env, seed)
  /\ pc' = "done"
  /\ UNCHANGED <<env, kind, groups, details, replay, answer>>

\* The client goes away while the handler reads an upload: the handler is
\* cancelled at its await and its locals are dropped.
Cancel ==
  /\ pc = "ingest"
  /\ pc' = "idle"
  /\ kind' = "none"
  /\ groups' = <<>>
  /\ UNCHANGED <<env, details, response, replay, analysis_store, returned, answer>>

\* _get_analysis(analysis_id): HTTP 400 for no id, 404 for an unknown one.
get_analysis(store, analysis_id) ==
  IF analysis_id = 0 THEN [status |-> 400, result |-> <<>>]
  ELSE IF analysis_id \notin Keys(store) THEN [status |-> 404, result |-> <<>>]
  ELSE [status |-> 200, result |-> Lookup(store, analysis_id)]

\* What each read endpoint returns of a stored response.
ReadBody(endpoint, result) ==
  CASE endpoint = "similarity-graph" -> result.similarity.graph
    [] endpoint = "similarity-matrix" ->
         [files |-> result.similarity.matrix.files,
          matrix |-> result.similarity.matrix.values]
    [] endpoint = "clusters" -> [clusters |-> result.similarity.clusters]

ReadEndpoints == {"similarity-graph", "similarity-matrix", "clusters"}

\* GET /similarity-graph, /similarity-matrix, /clusters ?analysis_id=...
Read(endpoint, analysis_id) ==
  /\ LET found == get_analysis(analysis_store, analysis_id)
     IN answer' = [endpoint |-> endpoint, analysis_id |-> analysis_id,
                   status |-> found.status,
                   body |-> IF found.status = 200 THEN ReadBody(endpoint, found.result)
                            ELSE <<>>]
  /\ UNCHANGED <<env, pc, kind, groups, details, response, replay,
               analysis_store, returned>>

\* The uploads of the requests: the i-th file of a request is named after
\* i, and the files that parse are the two of one language.
ServiceSources == {src \in Sources : src.lang = "py"}

NextService ==
  \/ StartUpload("pair")
  \/ \E src \in ServiceSources : ProcessSource(Received(groups) + 1, src)
  \/ \E lang \in {"py", "js", "txt"}, fault \in Faults(kind) :
       SkipSource(Received(groups) + 1, lang, fault)
  \/ \E seed \in IterOrders, aid \in AnalysisIds : AnalyzeAndStore(seed, aid)
  \/ Reject
  \/ Cancel
  \/ Reset
  \/ \E endpoint \in ReadEndpoints, analysis_id \in 0 .. MaxStored :
       Read(endpoint, analysis_id)

SpecService == Init /\ [][NextService]_vars

(***************************************************************************)
(* Properties                                                              *)
(***************************************************************************)
Pairs == response.pairs

\* |X inter Y| / |X union Y|, 0 when both are empty.
Jaccard(X, Y) ==
  IF X \cup Y = {} THEN 0
  ELSE Round6(Cardinality(X \cap Y), Cardinality(X \cup Y))

\* The empty-set rule of the CFG and DFG layers.
EmptySetRule(X, Y) ==
  IF X = {} /\ Y = {} THEN Scale
  ELSE IF X = {} \/ Y = {} THEN 0
  ELSE Round6(Cardinality(X \cap Y), Cardinality(X \cup Y))

Weighted(w, j_ast, j_cfg, j_dfg) == RoundDiv(w[1] * j_ast + w[2] * j_cfg + w[3] * j_dfg, 10)

EntriesOf(d) == {p \in DOMAIN Pairs : Pairs[p].file1 = d.file1 /\ Pairs[p].file2 = d.file2}

\* The pair is tested against the threshold with score s and reported with
\* round(s, 4).
ScoredAs(d, s) ==
  /\ d.final = s
  /\ (s >= Threshold(kind)) <=> (EntriesOf(d) # {})
  /\ \A p \in EntriesOf(d) : Pairs[p].similarity_score = Round4(s)

BothTrees(d) == d.analysis_a.normalised_tree.present /\ d.analysis_b.normalised_tree.present

\* C1 as stated: for every pair of files a request compares, with or without
\* a normalised tree, the score tested against the threshold and reported
\* (to 4 decimals) is w_ast * J_AST + w_cfg * J_CFG + w_dfg * J_DFG of the
\* pair's three layer scores under the configured weights.
C1_WeightedForEveryPair ==
  pc = "done" =>
    \A k \in DOMAIN details :
      ScoredAs(details[k], Weighted(env, details[k].ast, details[k].cfg, details[k].dfg))

\* C1 as amended: the weighted sum is the score of a pair whose two files
\* both carry a normalised tree; when either file has none, the score is the
\* plain J_AST.
C1_WeightedWhenBothTrees ==
  pc = "done" =>
    \A k \in DOMAIN details :
      LET d == details[k]
          a == d.analysis_a
          b == d.analysis_b
      IN IF BothTrees(d)
         THEN ScoredAs(d, Weighted(env, Jaccard(a.hash_set, b.hash_set),
                                   EmptySetRule(a.normalised_tree.cfg, b.normalised_tree.cfg),
                                   EmptySetRule(a.normalised_tree.dfg, b.normalised_tree.dfg)))
         ELSE ScoredAs(d, Jaccard(a.hash_set, b.hash_set))

\* A request that compared two files with trees to a score strictly between
\* 0 and 1, and two files of which one has no tree.
C1_Witness ==
  /\ pc = "done"
  /\ \E k \in DOMAIN details :
       BothTrees(details[k]) /\ details[k].final > 0 /\ details[k].final < Scale
       /\ EntriesOf(details[k]) # {}
  /\ \E k \in DOMAIN details : ~BothTrees(details[k]) /\ EntriesOf(details[k]) # {}

\* C2: compute_similarity returns exactly one entry for every unordered pair
\* of distinct files whose final score is >= threshold, none for a pair below
\* it, and file1 < file2 in every entry.
C2_OneEntryPerPairAtOrAboveThreshold ==
  (pc = "done" /\ kind \in {"multi_file", "pair"}) =>
    LET analyses == groups[1].analyses
        names == Keys(analyses)
    IN /\ \A a \in names, b \in names :
            a < b =>
              LET final == pair_similarity_detail(Lookup(analyses, a), Lookup(analyses, b), env).final
                  entries == {p \in DOMAIN Pairs : {Pairs[p].file1, Pairs[p].file2} = {a, b}}
              IN /\ final >= Threshold(kind) => Cardinality(entries) = 1
                 /\ final < Threshold(kind) => entries = {}
       /\ \A p \in DOMAIN Pairs :
            /\ Pairs[p].file1 < Pairs[p].file2
            /\ Pairs[p].file1 \in names
            /\ Pairs[p].file2 \in names

\* Three files compared, of which some pair is emitted and some pair is not.
C2_Witness ==
  /\ pc = "done"
  /\ kind = "multi_file"
  /\ Len(groups[1].analyses) = 3
  /\ Len(Pairs) \in {1, 2}

\* C3: compute_cfg_similarity and compute_dataflow_similarity give 1.0 when
\* both hashed edge sets are empty, 0.0 when exactly one is empty, and
\* |intersection| / |union| otherwise.
C3_EmptySetRule ==
  pc = "layers" =>
    \A k \in DOMAIN details :
      LET d == details[k]
      IN /\ d.cfg = EmptySetRule(d.tree_a.cfg, d.tree_b.cfg)
         /\ d.dfg = EmptySetRule(d.tree_a.dfg, d.tree_b.dfg)

\* Exactly one CFG edge set is empty, and the DFG edge sets overlap in part.
C3_Witness ==
  /\ pc = "layers"
  /\ \E k \in DOMAIN details :
       LET d == details[k]
       IN /\ d.tree_a.cfg = {} /\ d.tree_b.cfg # {} /\ d.cfg = 0
          /\ d.tree_a.dfg \cap d.tree_b.dfg # {}
          /\ d.tree_a.dfg # d.tree_b.dfg
          /\ d.dfg > 0 /\ d.dfg < Scale

SameContent(a, b) == [a EXCEPT !.filename = 0] = [b EXCEPT !.filename = 0]

\* C4: under the default weights two fingerprinted files with identical
\* content score 1.0, and the pair is emitted.
C4_IdenticalContentScoresOne ==
  (pc = "done" /\ env = DefaultWeights) =>
    \A k \in DOMAIN details :
      SameContent(details[k].analysis_a, details[k].analysis_b) =>
        /\ details[k].final = Scale
        /\ \E p \in EntriesOf(details[k]) : Pairs[p].similarity_score = Scale

\* Two files with the same content under different names were compared, in
\* the scripting family.
C4_Witness ==
  /\ pc = "done"
  /\ \E k \in DOMAIN details :
       /\ SameContent(details[k].analysis_a, details[k].analysis_b)
       /\ details[k].file1 # details[k].file2
       /\ BothTrees(details[k])

\* C5: every emitted similarity_score lies in [0, 1], for every weight
\* configuration the engine accepts.
C5_ScoreInUnitInterval ==
  \A p \in DOMAIN Pairs : Pairs[p].similarity_score >= 0 /\ Pairs[p].similarity_score <= Scale

\* C6: a second invocation on the same file names and contents yields the
\* same response (pairs with their regions, matrix, clusters, files).
C6_SameInputsSameResponse == pc = "replayed" => replay = response

\* C7: the pair list is sorted by similarity_score descending, equal scores
\* in ascending (file1, file2) order.
C7_SortedWithTieBreak ==
  pc = "done" =>
    \A i \in DOMAIN Pairs, j \in DOMAIN Pairs :
      i < j =>
        \/ Pairs[i].similarity_score > Pairs[j].similarity_score
        \/ /\ Pairs[i].similarity_score = Pairs[j].similarity_score
           /\ \/ Pairs[i].file1 < Pairs[j].file1
              \/ Pairs[i].file1 = Pairs[j].file1 /\ Pairs[i].file2 <= Pairs[j].file2

C8_Linked(a, b) ==
  \E p \in DOMAIN Pairs :
    /\ Pairs[p].similarity_score >= ClusterThreshold
    /\ {Pairs[p].file1, Pairs[p].file2} = {a, b}

C8_Nodes == {f \in AggFiles : \E g \in AggFiles : C8_Linked(f, g)}

RECURSIVE C8_Reach(_)
C8_Reach(S) ==
  LET T == S \cup {b \in C8_Nodes : \E a \in S : C8_Linked(a, b)}
  IN IF T = S THEN S ELSE C8_Reach(T)

C8_Components == {c \in {C8_Reach({a}) : a \in C8_Nodes} : Cardinality(c) >= 2}

\* C8: the clusters are exactly the connected components with at least two
\* members of the graph of the pairs scoring >= 0.75; no file is in two
\* clusters and no cluster has a single member.
C8_ClustersAreComponents ==
  pc = "agg" =>
    LET cl == response.clusters
    IN /\ {Range(cl[i].members) : i \in DOMAIN cl} = C8_Components
       /\ \A i \in DOMAIN cl :
            /\ Len(cl[i].members) = Cardinality(Range(cl[i].members))
            /\ Len(cl[i].members) >= 2
       /\ \A i \in DOMAIN cl, j \in DOMAIN cl :
            i # j => Range(cl[i].members) \cap Range(cl[j].members) = {}

\* (1,2) and (1,3) at or above 0.75, (2,3) at 0.2: the one cluster is {1,2,3}.
C8_Witness ==
  /\ pc = "agg"
  /\ Len(response.clusters) = 1
  /\ response.clusters[1].members = <<1, 2, 3>>
  /\ \E p \in DOMAIN Pairs :
       Pairs[p].file1 = 2 /\ Pairs[p].file2 = 3 /\ Pairs[p].similarity_score = 200000
  /\ ~C8_Linked(2, 3)

C10_DiagonalIsOne ==
  pc = "done" =>
    \A i \in DOMAIN response.matrix.values : response.matrix.values[i][i] = Scale


\* C11: in every response the graph has exactly one node per fingerprinted
\* input file, in lexicographic order, whether or not the file has an edge
\* at or above the graph threshold.
C11_OneNodePerFingerprintedFile ==
  pc = "done" =>
    LET nodes == response.graph.nodes
    IN /\ Len(nodes) = Received(groups)
       /\ \A i \in DOMAIN nodes, j \in DOMAIN nodes : i < j => nodes[i] < nodes[j]
       /\ \A g \in DOMAIN groups : Keys(groups[g].analyses) \subseteq Range(nodes)


C12_Regions(a, b) ==
  LET pairs_of(h) == {[file1_lines |-> la, file2_lines |-> lb] :
                        la \in Range(a.hash_to_lines[h]), lb \in Range(b.hash_to_lines[h])}
  IN {r \in UNION {pairs_of(h) : h \in a.hash_set \cap b.hash_set} :
        r.file1_lines[1] # 0 /\ r.file2_lines[1] # 0}

\* C12: the matching regions of (A, B) are exactly the distinct (la, lb)
\* with la in A.hash_to_lines[h] and lb in B.hash_to_lines[h] for a shared
\* h, without those where la or lb starts at line 0; none occurs twice and
\* the list is in ascending order of file1_lines[0].
C12_RegionsExactDistinctOrdered ==
  pc = "regions" =>
    \A k \in DOMAIN details :
      LET regions == details[k].regions
      IN /\ Range(regions) = C12_Regions(details[k].analysis_a, details[k].analysis_b)
         /\ \A i \in DOMAIN regions, j \in DOMAIN regions :
              i < j => /\ regions[i] # regions[j]
                       /\ regions[i].file1_lines[1] <= regions[j].file1_lines[1]

\* Two shared structures on the same line of both files: one region for
\* the two.
C12_Witness ==
  /\ pc = "regions"
  /\ \E k \in DOMAIN details :
       LET a == details[k].analysis_a
           b == details[k].analysis_b
       IN /\ a.hash_set \cap b.hash_set = {1, 2}
          /\ a.hash_to_lines[1] = << <<1, 1>> >>
          /\ a.hash_to_lines[2] = << <<1, 1>> >>
          /\ b.hash_to_lines[1] = << <<1, 1>> >>
          /\ b.hash_to_lines[2] = << <<1, 1>> >>
          /\ details[k].regions = <<[file1_lines |-> <<1, 1>>, file2_lines |-> <<1, 1>>]>>


C13_Final(a, b) == pair_similarity_detail(a.value, b.value, env).final

\* C13: compute_cross_similarity(group_a, group_b) emits a pair only for
\* (a, b) with a in group_a and b in group_b, exactly one for each such
\* (a, b) whose final score is >= threshold, and none for two files of the
\* same group.
C13_OnlyCrossGroupPairs ==
  (pc = "done" /\ kind = "zip_cross") =>
    LET group_a == groups[1].analyses
        group_b == groups[2].analyses
        above == {ij \in (DOMAIN group_a) \X (DOMAIN group_b) :
                    C13_Final(group_a[ij[1]], group_b[ij[2]]) >= CrossThreshold}
    IN /\ \A p \in DOMAIN Pairs :
            \E ij \in above : /\ Pairs[p].file1 = group_a[ij[1]].key
                              /\ Pairs[p].file2 = group_b[ij[2]].key
       /\ \A ij \in above :
            Cardinality({p \in DOMAIN Pairs :
                           /\ Pairs[p].file1 = group_a[ij[1]].key
                           /\ Pairs[p].file2 = group_b[ij[2]].key}) = 1
       /\ Len(Pairs) = Cardinality(above)

\* Two files in the first group that resemble each other, one file in the
\* second group that resembles only one of them.
C13_Witness ==
  /\ pc = "done"
  /\ kind = "zip_cross"
  /\ groups[1].label # groups[2].label
  /\ Len(groups[1].analyses) = 2
  /\ Len(groups[2].analyses) = 1
  /\ C13_Final(groups[1].analyses[1], groups[1].analyses[2]) >= CrossThreshold
  /\ Len(Pairs) = 1


\* C14: for any module and any permutation of its top-level function
\* definitions, the CFG hash set and the DFG hash set are unchanged.
C14_FunctionOrderInvariant ==
  pc = "modules" =>
    \A k \in DOMAIN details :
      /\ details[k].cfg_a = details[k].cfg_b
      /\ details[k].dfg_a = details[k].dfg_b


\* The variants of the fingerprinted file of a state of SpecTrees.
TreeOp(op) == pc = "trees" /\ details # <<>> /\ details[1].op = op

\* C15: the AST hash_set of a file is the same after any bijective renaming
\* of its identifiers and any replacement of its literals by literals of
\* the same kind.
C15_RenamingAndLiteralInvariant ==
  TreeOp("rewrite") =>
    details[1].analysis_a.hash_set = details[1].analysis_b.hash_set


\* C16: the hash of a node depends only on its type and on the multiset of
\* its children's hashes: with the children of any nodes permuted (markup
\* attributes included) the root's hash and the hash_set are unchanged, and
\* a node of another type over the same children has another hash.
C16_HashOfTypeAndChildMultiset ==
  TreeOp("shuffle") =>
    /\ details[1].root_a = details[1].root_b
    /\ details[1].analysis_a.hash_set = details[1].analysis_b.hash_set
    /\ (details[1].retyped = details[1].root_a) <=>
         (details[1].node_type = details[1].root_a.type)

\* A markup element whose attributes come in another order, and a node of
\* another type over the children of the root.
C16_Witness ==
  /\ TreeOp("shuffle")
  /\ details[1].lang = "javascript"
  /\ details[1].node_type # details[1].root_a.type
  /\ LET element_a == details[1].tree.children[1].children[1]
         element_b == details[1].variant.children[1].children[1]
     IN /\ element_a.type = "JSXSelfClosingElement"
        /\ element_b.type = "JSXSelfClosingElement"
        /\ element_a.children[1] = element_b.children[1]
        /\ element_a.children[2] = element_b.children[3]
        /\ element_a.children[3] = element_b.children[4]
        /\ element_a.children[4] = element_b.children[2]


\* C17: a file whose module, function or class body starts with a
\* documentation string and the otherwise identical file without that
\* statement have the same hash_set, in both families.
C17_DocstringsRemoved ==
  TreeOp("undocument") =>
    details[1].analysis_a.hash_set = details[1].analysis_b.hash_set


\* The nodes of a tree, the children of a node before the node.
RECURSIVE PostOrder(_)
RECURSIVE PostOrderAll(_)
PostOrderAll(nodes) ==
  IF nodes = <<>> THEN <<>> ELSE PostOrder(Head(nodes)) \o PostOrderAll(Tail(nodes))

PostOrder(node) == PostOrderAll(node.children) \o <<node>>

\* C18: hash_set is the set of the hashes of subtree_infos; hash_to_lines[h]
\* has one entry for each entry of subtree_infos with hash h; subtree_infos
\* has one entry for each node whose type is not trivial and none for the
\* others; the hash of every child, trivial or not, is part of its parent's
\* fingerprint.
C18_RecordsOfNonTrivialNodes ==
  TreeOp("hash") =>
    LET fa == details[1].analysis
        infos == fa.subtree_infos
        trivial == TrivialTypes(details[1].lang)
        nodes == PostOrder(details[1].tree)
        kept == SelectSeq(nodes, LAMBDA n : n.type \notin trivial)
    IN /\ fa.hash_set = {infos[i].hash : i \in DOMAIN infos}
       /\ DOMAIN fa.hash_to_lines = fa.hash_set
       /\ \A h \in fa.hash_set :
            Len(fa.hash_to_lines[h]) = Cardinality({i \in DOMAIN infos : infos[i].hash = h})
       /\ Len(infos) = Len(kept)
       /\ \A i \in DOMAIN infos :
            /\ infos[i].start_line = kept[i].start_line
            /\ infos[i].end_line = kept[i].end_line
            /\ infos[i].hash = Collect(kept[i], trivial).h
       /\ \A i \in DOMAIN nodes :
            LET fed == Collect(nodes[i], trivial).h.children
            IN /\ Len(fed) = Len(nodes[i].children)
               /\ \A c \in DOMAIN nodes[i].children :
                    Collect(nodes[i].children[c], trivial).h \in Range(fed)

\* A file with trivial nodes under recorded ones and one hash recorded for
\* two nodes.
C18_Witness ==
  /\ TreeOp("hash")
  /\ \E h \in details[1].analysis.hash_set : Len(details[1].analysis.hash_to_lines[h]) = 2
  /\ \E i \in DOMAIN PostOrder(details[1].tree) :
       PostOrder(details[1].tree)[i].type \in TrivialTypes(details[1].lang)


\* The fingerprints a request is left with.
Survivors == SumSeq([g \in DOMAIN groups |-> Len(groups[g].analyses)])

\* C19: a request to /analyze, /analyze-pair, /compare-zips or
\* /compare-github-repos is answered with a response record only when at
\* least two fingerprints survive, and with HTTP 400 only when fewer than
\* two do, whatever files were skipped with an error record.
C19_ResponseIffTwoFingerprints ==
  /\ pc = "done" => Survivors >= 2
  /\ pc = "failed" => Survivors < 2


\* C20: the judge changes nothing of the structural result: the emitted
\* pairs have the file1, file2, similarity_score and matching_regions they
\* have without a judge, whatever the judge does; the judge is called
\* exactly for the emitted pairs with final >= LLM_THRESHOLD; llm_verdict
\* and refined_verdict are set together, exactly on the pairs for which the
\* call returned a verdict.
C20_JudgeLeavesStructuralResult ==
  (pc = "judge" /\ details # <<>>) =>
    LET plain == details[1].plain
        judged == details[1].judged
        loop == details[1].loop
    IN /\ Len(judged) = Len(plain)
       /\ \A p \in DOMAIN judged :
            /\ judged[p].file1 = plain[p].file1
            /\ judged[p].file2 = plain[p].file2
            /\ judged[p].similarity_score = plain[p].similarity_score
            /\ judged[p].matching_regions = plain[p].matching_regions
            /\ (judged[p].llm_verdict = NoVerdict) <=> (judged[p].refined_verdict = NoRefined)
            /\ (judged[p].llm_verdict # NoVerdict) <=>
                 \E k \in DOMAIN loop : /\ loop[k].file1 = judged[p].file1
                                        /\ loop[k].file2 = judged[p].file2
                                        /\ loop[k].called
                                        /\ loop[k].judge # "absent"
       /\ \A k \in DOMAIN loop :
            loop[k].called <=> /\ loop[k].final >= details[1].threshold
                               /\ loop[k].final >= LlmThreshold

\* A pair at or above LLM_THRESHOLD for which the call raised: both records
\* are set, the verdict carries the error, the pair is as without a judge.
C20_Witness ==
  /\ pc = "judge"
  /\ details # <<>>
  /\ \E k \in DOMAIN details[1].loop :
       /\ details[1].loop[k].called
       /\ details[1].loop[k].judge = "raises"
       /\ details[1].loop[k].pair_result.llm_verdict.error
       /\ details[1].loop[k].pair_result.refined_verdict.refined_risk_level = "LOW"
  /\ Len(details[1].plain) >= 1


\* The names in files are pairwise distinct.
Distinct(files) ==
  \A i, j \in DOMAIN files : i # j => files[i] # files[j]

\* The records of errors about the file name.
ErrorsFor(errors, name) == {k \in DOMAIN errors : errors[k].file = name}

C29_CollectionsReferToListedFiles ==
  pc = "done" =>
    LET listed == Range(response.files)
    IN /\ \A p \in DOMAIN response.pairs :
            {response.pairs[p].file1, response.pairs[p].file2} \subseteq listed
       /\ \A e \in DOMAIN response.graph.edges :
            {response.graph.edges[e].source, response.graph.edges[e].target} \subseteq listed
       /\ \A c \in DOMAIN response.clusters :
            Range(response.clusters[c].members) \subseteq listed
       /\ response.graph.nodes = response.files
       /\ response.matrix.files = response.files
       /\ Len(response.matrix.values) = Len(response.files)
       /\ listed = Keys(AllAnalyses(groups))

\* An archive comparison one file of which was skipped and is not listed,
\* whose response has an edge and a cluster.
C29_Witness ==
  /\ pc = "done"
  /\ kind = "zip_cross"
  /\ \E g \in DOMAIN groups : \E k \in DOMAIN groups[g].errors :
       groups[g].errors[k].file \notin Range(response.files)
  /\ response.graph.edges # <<>>
  /\ response.clusters # <<>>


\* The edge the graph has for a pair.
EdgeOf(pair) ==
  [source |-> pair.file1, target |-> pair.file2, weight |-> Round4(pair.similarity_score)]

\* How many entries of the list s equal x.
Occurrences(s, x) == Cardinality({k \in DOMAIN s : s[k] = x})

FunctionOp(op) == pc = "functions" /\ details # <<>> /\ details[1].op = op

\* C25: every edge (u, d) that an assignment, an augmented or annotated
\* assignment or a for loop adds has u # d and a u that is a parameter or
\* the target of an earlier definition; every edge (u, __return__) has a u
\* that is a parameter or the target of an earlier definition.
C25_EdgesFromEarlierDefinitions ==
  FunctionOp("dfg") =>
    \A k \in DOMAIN details[1].emitted :
      LET e == details[1].emitted[k]
      IN /\ e.dst # ReturnSink => e.src # e.dst
         /\ e.src \in e.defined


\* The number of scope-starting statements of a list, and the deepest
\* nesting of them.
RECURSIVE ScopeCount(_)
ScopeCount(stmts) ==
  IF stmts = <<>> THEN 0
  ELSE (IF Head(stmts).type \in CfgScopeNodes THEN 1 ELSE 0)
       + ScopeCount(Head(stmts).body) + ScopeCount(Tail(stmts))

RECURSIVE ScopeDepth(_)
ScopeDepth(stmts) ==
  IF stmts = <<>> THEN 0
  ELSE Max2((IF Head(stmts).type \in CfgScopeNodes THEN 1 ELSE 0)
              + ScopeDepth(Head(stmts).body),
            ScopeDepth(Tail(stmts)))

\* C26: the local ids given to the scope-starting statements of a function
\* are 1, 2, ... in visit order, none of them the id 0 of the entry block;
\* no edge has src = dst; and a function with two nested scope statements
\* and one with two scope statements in sequence have different edge sets.
C26_LocalIdsDistinctFromEntry ==
  FunctionOp("cfg") =>
    LET a == details[1].func_a
        b == details[1].func_b
    IN /\ details[1].node_count_a = ScopeCount(a.body) + 1
       /\ \A e \in details[1].edges_a : e[2] # 0 /\ e[1] # e[2]
       /\ {e[2] : e \in details[1].edges_a} = 1 .. ScopeCount(a.body)
       /\ (/\ ScopeCount(a.body) = 2 /\ ScopeDepth(a.body) = 2
           /\ ScopeCount(b.body) = 2 /\ ScopeDepth(b.body) = 1)
            => details[1].edges_a # details[1].edges_b


\* C24: for a score of [0, 1] the label is VERY HIGH from 0.85, HIGH from
\* 0.75 to below 0.85, MODERATE from 0.60 to below 0.75 and LOW below 0.60,
\* and the flag is set exactly from 0.75, that is exactly with the labels
\* HIGH and VERY HIGH.
C24_BandsAndFlag ==
  (pc = "labels" /\ details # <<>>) =>
    LET score == details[1].score
        label == details[1].confidence_level
    IN /\ label = "VERY HIGH" <=> 20 * score >= 17 * Scale
       /\ label = "HIGH" <=> (4 * score >= 3 * Scale /\ 20 * score < 17 * Scale)
       /\ label = "MODERATE" <=> (5 * score >= 3 * Scale /\ 4 * score < 3 * Scale)
       /\ label = "LOW" <=> 5 * score < 3 * Scale
       /\ details[1].plagiarism_flag <=> 4 * score >= 3 * Scale
       /\ details[1].plagiarism_flag <=> label \in {"HIGH", "VERY HIGH"}

\* The score 0.75 itself, flagged and labelled HIGH.
C24_Witness ==
  /\ pc = "labels"
  /\ details # <<>>
  /\ 4 * details[1].score = 3 * Scale
  /\ details[1].plagiarism_flag
  /\ details[1].confidence_level = "HIGH"


\* The named nodes of a Unified IR tree and of its normalised copy, node by
\* node in the order of the walk: the original name, the final name, and
\* whether the node is the target of a call.
RECURSIVE NamePairs(_, _, _)
RECURSIVE NamePairsAll(_, _, _)
NamePairsAll(nodes, outs, call) ==
  IF nodes = <<>> THEN <<>>
  ELSE NamePairs(Head(nodes), Head(outs), call) \o NamePairsAll(Tail(nodes), Tail(outs), FALSE)

NamePairs(ir, out, callee) ==
  (IF ir.name # ""
   THEN <<[original |-> ir.name, canonical |-> out.name, callee |-> callee]>>
   ELSE <<>>)
  \o NamePairsAll(SortedAttributes(ir), out.children, ir.type = "CallExpression")

\* C27: in normalize_ir(ir) the target of every call carries a hook_k name
\* when its original name is a framework hook and a func_k name otherwise,
\* never a var_k name, and no two nodes with different original names
\* carry the same final name.
C27_CalleesNamedFromHookOrFuncPool ==
  (pc = "calls" /\ details # <<>>) =>
    LET pairs == NamePairs(details[1].ir, details[1].normalized_ir, FALSE)
    IN /\ \A k \in DOMAIN pairs :
            pairs[k].callee =>
              /\ pairs[k].canonical \notin Range(CanonVars)
              /\ IF pairs[k].original \in REACT_HOOKS
                 THEN pairs[k].canonical \in Range(CanonHooks)
                 ELSE pairs[k].canonical \in Range(CanonFuncs)
       /\ \A j, k \in DOMAIN pairs :
            pairs[j].original # pairs[k].original => pairs[j].canonical # pairs[k].canonical

\* The payload of the run_unified_analysis call under study.
Payload == details[1].response

\* C22: in every response the summary agrees with the body: total_files is
\* the number of entries of files and of metrics, which has one entry per
\* file in sorted file name order; suspicious_pairs_count is the length of
\* similarity.pairs; highest_similarity is the greatest similarity_score of
\* the pairs, or 0.0 when no pair was emitted; cluster_count is the length
\* of similarity.clusters.
C22_SummaryAgreesWithBody ==
  pc = "payload" =>
    LET pairs == Payload.similarity.pairs
        highest == Payload.summary.highest_similarity
    IN /\ Payload.summary.total_files = Len(Payload.files)
       /\ Len(Payload.metrics) = Len(Payload.files)
       /\ \A k \in DOMAIN Payload.files : Payload.metrics[k].file = Payload.files[k]
       /\ \A k \in 1 .. Len(Payload.files) - 1 : Payload.files[k] < Payload.files[k + 1]
       /\ Payload.summary.suspicious_pairs_count = Len(pairs)
       /\ pairs = <<>> => highest = 0
       /\ pairs # <<>> =>
            /\ \E k \in DOMAIN pairs : pairs[k].similarity_score = highest
            /\ \A k \in DOMAIN pairs : pairs[k].similarity_score <= highest
       /\ Payload.summary.cluster_count = Len(Payload.similarity.clusters)

\* Three files, two pairs of which the first emitted one scores higher, and
\* a cluster.
C22_Witness ==
  /\ pc = "payload"
  /\ Len(Payload.files) = 3
  /\ Len(Payload.similarity.pairs) = 2
  /\ Payload.similarity.pairs[1].similarity_score
       > Payload.similarity.pairs[2].similarity_score
  /\ Payload.summary.highest_similarity = Payload.similarity.pairs[1].similarity_score
  /\ Payload.summary.cluster_count = 1

RECURSIVE SumOver(_, _)
SumOver(f, S) ==
  IF S = {} THEN 0
  ELSE LET x == CHOOSE y \in S : TRUE IN f[x] + SumOver(f, S \ {x})

\* C23: a response contains llm_summary if and only if at least one pair
\* carries an llm_verdict, and metadata.llm_enabled is true exactly then;
\* pairs_evaluated_by_llm is the number of such pairs and the counts of
\* classification_breakdown sum to it; the response contains errors if and
\* only if the accumulated error list is not empty.
C23_LlmSummaryAndErrorsWhenPresent ==
  pc = "payload" =>
    LET pairs == Payload.similarity.pairs
        carrying == {k \in DOMAIN pairs : "llm_verdict" \in DOMAIN pairs[k]}
    IN /\ "llm_summary" \in DOMAIN Payload <=> carrying # {}
       /\ Payload.metadata.llm_enabled <=> carrying # {}
       /\ "llm_summary" \in DOMAIN Payload =>
            LET breakdown == Payload.llm_summary.classification_breakdown
            IN /\ Payload.llm_summary.pairs_evaluated_by_llm = Cardinality(carrying)
               /\ SumOver(breakdown, DOMAIN breakdown) = Cardinality(carrying)
       /\ "errors" \in DOMAIN Payload <=> details[1].errors # <<>>
       /\ "errors" \in DOMAIN Payload => Payload.errors = details[1].errors

\* Three pairs, one without a verdict and two with verdicts of different
\* classes, in a request with a skipped file.
C23_Witness ==
  /\ pc = "payload"
  /\ "errors" \in DOMAIN Payload
  /\ "llm_summary" \in DOMAIN Payload
  /\ Len(Payload.similarity.pairs) = 3
  /\ Payload.llm_summary.pairs_evaluated_by_llm = 2
  /\ Cardinality(DOMAIN Payload.llm_summary.classification_breakdown) = 2

\* The response sent to the client for an analysis id, if there was one.
ReturnedFor(analysis_id) == {r \in returned : r.analysis_id = analysis_id}

\* Every entry of the store is a complete response, stored under its own
\* id, and the one that was returned for that id.
StoreHoldsReturned ==
  /\ \A i \in DOMAIN analysis_store :
       LET entry == analysis_store[i]
       IN /\ entry.key = entry.value.analysis_id
          /\ entry.value \in returned
          /\ {"analysis_id", "summary", "files", "similarity", "metrics", "metadata"}
               \subseteq DOMAIN entry.value
          /\ \A j \in DOMAIN analysis_store : analysis_store[j].key = entry.key => j = i
  /\ \A r \in returned :
       /\ r.analysis_id \in Keys(analysis_store)
       /\ Lookup(analysis_store, r.analysis_id) = r

\* A step keeps every entry as it is; only the end of a successful handler
\* changes the store, by one entry; a read answers with the values of the
\* response returned for the id, or with a not-found error.
StoreStep ==
  /\ \A i \in DOMAIN analysis_store :
       i \in DOMAIN analysis_store' /\ analysis_store'[i] = analysis_store[i]
  /\ analysis_store' # analysis_store =>
       /\ pc = "ingest" /\ pc' = "done"
       /\ Len(analysis_store') = Len(analysis_store) + 1
  /\ (pc' = "failed" \/ (pc = "ingest" /\ pc' = "idle")) =>
       analysis_store' = analysis_store /\ returned' = returned
  /\ answer' # answer =>
       /\ analysis_store' = analysis_store
       /\ IF ReturnedFor(answer'.analysis_id) # {}
          THEN /\ answer'.status = 200
               /\ \E r \in ReturnedFor(answer'.analysis_id) :
                    answer'.body = ReadBody(answer'.endpoint, r)
          ELSE answer'.status = IF answer'.analysis_id = 0 THEN 400 ELSE 404

====
